---- MODULE Spec2Model ----
(***************************************************************************)
(* A model of normits_demand.core.data_structures.DVector: construction    *)
(* from a dictionary or a long-format table, and the algebraic operators.  *)
(*                                                                         *)
(* Values are integers (the code's floats without rounding).  A value of   *)
(* a segment is a record [k, x]: k is "py" (a python scalar, which has no  *)
(* numpy methods such as copy or flatten), "np" (a numpy scalar) or "arr"  *)
(* (a one dimensional numpy array); x is the sequence of its numbers, of   *)
(* length 1 for the two scalar kinds.                                      *)
(***************************************************************************)
EXTENDS Integers, Sequences, FiniteSets, TLC

VARIABLES
    pc,      \* position of the call: "ready", "workers" (chunks handed out), "done"
    args,    \* the arguments of the constructor call being made
    chunks,  \* tabular construction: the chunks of the sorted table
    outs,    \* tabular construction: what the worker of each chunk returned
    a,       \* operator call: self
    b,       \* operator call: other
    call,    \* operator call: the operator and its remaining arguments
    res      \* what the call returned: a vector, or the error it raised

vars == <<pc, args, chunks, outs, a, b, call, res>>

(***************************************************************************)
(* Bounds of the model.                                                    *)
(***************************************************************************)
MaxVal == 1      \* operands hold numbers 0..MaxVal
MaxRows == 3     \* rows of an input table
MaxChunk == 2    \* df_chunk_size arguments 1..MaxChunk
BigSegments == 701  \* segments of the segmentation big, more than one chunk
ZeroInfillDenominator == 100  \* the infill 1e-10 of balancing is 1 / this in the model
MaxConversions == 3  \* convert_time_format calls made one after the other
MaxCalls == 2    \* operator calls made one after the other on the same objects
MaxWork == 4     \* rows of a table or keys of a dictionary that are chunked
CpuCount == 2    \* os.cpu_count() of the machine

(***************************************************************************)
(* Generic helpers.                                                        *)
(***************************************************************************)
RECURSIVE SumSeq(_)
SumSeq(s) == IF s = <<>> THEN 0 ELSE Head(s) + SumSeq(Tail(s))

RECURSIVE SetToSeq(_)
\* The elements of a finite set in some fixed order.
SetToSeq(S) == IF S = {} THEN <<>>
               ELSE LET e == CHOOSE e \in S : TRUE IN <<e>> \o SetToSeq(S \ {e})

Range(s) == {s[i] : i \in DOMAIN s}

Reverse(s) == [i \in 1..Len(s) |-> s[Len(s) + 1 - i]]

CeilDiv(n, d) ==
    IF d < 0 THEN -(n \div (-d))
    ELSE IF n % d = 0 THEN n \div d ELSE (n \div d) + 1

(***************************************************************************)
(* Values: python scalars, numpy scalars and numpy arrays.                 *)
(***************************************************************************)
VPy(x) == [k |-> "py", x |-> <<x>>]
VNp(x) == [k |-> "np", x |-> <<x>>]
VArr(s) == [k |-> "arr", x |-> s]

\* None, the value that dict.fromkeys gives every key
VNone == [k |-> "none", x |-> <<>>]

IsScalar(v) == v.k \in {"py", "np"}

\* Methods of numpy objects (copy, flatten) that a python number lacks.
HasNumpyMethods(v) == v.k # "py"

\* numpy's flatten: a one dimensional array, also of a numpy scalar.
Flatten(v) == VArr(v.x)

\* np.array([infill] * n)
Repeat(v, n) == VArr([i \in 1..n |-> v.x[1]])

(***************************************************************************)
(* The zoning oracle (core.ZoningSystem): names, zone ids, zone counts.    *)
(***************************************************************************)
NoZoning == "None"
Zonings == {"zA", "zB", "zC"}

UniqueZones(z) == IF z \in {"zA", "zC"} THEN <<1, 2>> ELSE <<1>>

NZones(z) == Len(UniqueZones(z))

(***************************************************************************)
(* The segmentation oracle (core.SegmentationLevel).                       *)
(*   ab    segments A, B                 no time period segment            *)
(*   c     segment C                     no time period segment            *)
(*   tp    segments tp1, tp5             time period segment               *)
(*   ab_tp segments A_tp1 .. B_tp5       time period segment               *)
(*   big   segments 1 .. BigSegments     no time period segment            *)
(*   tp7   segments tp1, tp7             time period segment, period 7     *)
(*   a     segment A                     no time period segment            *)
(***************************************************************************)
Segmentations == {"ab", "c", "tp", "ab_tp"}

SegmentNames(seg) ==
    CASE seg = "ab" -> {"A", "B"}
      [] seg = "c" -> {"C"}
      [] seg = "tp" -> {"tp1", "tp5"}
      [] seg = "ab_tp" -> {"A_tp1", "A_tp5", "B_tp1", "B_tp5"}
      [] seg = "big" -> 1..BigSegments
      [] seg = "tp7" -> {"tp1", "tp7"}
      [] seg = "a" -> {"A"}

HasTimePeriodSegments(seg) == seg \in {"tp", "ab_tp", "tp7"}

\* is_correct_naming: every given name is a segment name of the segmentation
IsCorrectNaming(seg, names) == names \subseteq SegmentNames(seg)

(***************************************************************************)
(* TimeFormat and DVector._validate_time_format.                           *)
(* A time_format argument is [t, v]: t = "none" (None), "enum" (a          *)
(* TimeFormat member named v) or "str" (the string v).                     *)
(***************************************************************************)
NoTf == "None"
TimeFormats == {"AVG_WEEK", "AVG_DAY", "AVG_HOUR"}

\* TimeFormat.<name>.value
TfValue(name) ==
    CASE name = "AVG_WEEK" -> "avg_week"
      [] name = "AVG_DAY" -> "avg_day"
      [] name = "AVG_HOUR" -> "avg_hour"

ValidTimeFormats == {TfValue(n) : n \in TimeFormats}

\* str.strip().lower() on the strings the model passes
StripLower(s) ==
    CASE s = "AVG_WEEK" -> "avg_week"
      [] s = "AVG_DAY" -> "avg_day"
      [] s = "AVG_HOUR" -> "avg_hour"
      [] s = " Avg_Day " -> "avg_day"
      [] OTHER -> s

\* name.lower() of a TimeFormat member name
LowerName(name) == StripLower(name)

TfNone == [t |-> "none", v |-> ""]
TfEnum(n) == [t |-> "enum", v |-> n]
TfStr(s) == [t |-> "str", v |-> s]

\* (mutant) a time format is refused for a segmentation without time periods
ValidateTimeFormat_Iff(seg, tf) ==
    IF HasTimePeriodSegments(seg) <=> tf.t = "none" THEN "ValueError"
    ELSE IF tf.t = "none" THEN NoTf
    ELSE tf.v

\* The TimeFormat to store (NoTf for None), or "ValueError".
ValidateTimeFormat(seg, tf) ==
    IF HasTimePeriodSegments(seg) /\ tf.t = "none" THEN "ValueError"
    ELSE IF tf.t = "none" THEN NoTf
    ELSE IF tf.t = "enum" THEN tf.v
    ELSE LET s == StripLower(tf.v) IN
         IF s \notin ValidTimeFormats THEN "ValueError"
         ELSE LET found == {n \in TimeFormats : LowerName(n) = s} IN
              IF found = {} THEN "ValueError" ELSE CHOOSE n \in found : TRUE

\* DVector.time_format: the member's name, None when unset
TimeFormatProperty(tf) == IF tf = NoTf THEN TfNone ELSE TfStr(tf)

(***************************************************************************)
(* Results of a call: a vector or a raised error.                          *)
(***************************************************************************)
NoData == <<>>

Vec(zoning, seg, tf, data) ==
    [kind |-> "vec", err |-> "", zoning |-> zoning, seg |-> seg, tf |-> tf,
     data |-> data, warned |-> FALSE]

Raise(e) ==
    [kind |-> "error", err |-> e, zoning |-> NoZoning, seg |-> "", tf |-> NoTf,
     data |-> NoData, warned |-> FALSE]

NoRes ==
    [kind |-> "none", err |-> "", zoning |-> NoZoning, seg |-> "", tf |-> NoTf,
     data |-> NoData, warned |-> FALSE]

IsVec(r) == r.kind = "vec"
IsErr(r) == r.kind = "error"

(***************************************************************************)
(* DVector._dict_to_dvec                                                   *)
(***************************************************************************)
DefaultVal(zoning, infill) ==
    IF zoning = NoZoning THEN infill ELSE Repeat(infill, NZones(zoning))

\* What a conversion returns: the data dictionary, or the error it raised.
Data(d) == [err |-> "", data |-> d]
Fail(e) == [err |-> e, data |-> NoData]

DictToDvec(zoning, seg, import_data, infill) ==
    LET default_val == DefaultVal(zoning, infill)
        not_in == SegmentNames(seg) \ DOMAIN import_data
        filled == [n \in (DOMAIN import_data) \cup not_in |->
                     IF n \in DOMAIN import_data THEN import_data[n] ELSE default_val]
    IN  \* default_val.copy() for every missing segment
        IF not_in # {} /\ ~HasNumpyMethods(default_val) THEN Fail("AttributeError")
        ELSE IF ~IsCorrectNaming(seg, DOMAIN filled) THEN Fail("SegmentationError")
        ELSE Data(filled)

(***************************************************************************)
(* numpy arithmetic with broadcasting.                                     *)
(***************************************************************************)
\* The elementwise operation named op on two numbers.
Apply(op, x, y) == IF op = "add" THEN x + y ELSE x * y

\* Shapes numpy can combine: a scalar with anything, equal lengths, length 1.
Broadcastable(u, v) ==
    IsScalar(u) \/ IsScalar(v) \/ Len(u.x) = Len(v.x) \/ Len(u.x) = 1 \/ Len(v.x) = 1

NpBinary(op, u, v) ==
    IF IsScalar(u) /\ IsScalar(v)
    THEN [k |-> IF u.k = "py" /\ v.k = "py" THEN "py" ELSE "np",
          x |-> <<Apply(op, u.x[1], v.x[1])>>]
    ELSE LET n == IF Len(u.x) > Len(v.x) THEN Len(u.x) ELSE Len(v.x)
             At(w, i) == IF Len(w.x) = 1 THEN w.x[1] ELSE w.x[i]
         IN  VArr([i \in 1..n |-> Apply(op, At(u, i), At(v, i))])

NpAdd(u, v) == NpBinary("add", u, v)

NpMul(u, v) == NpBinary("mul", u, v)

(***************************************************************************)
(* Tabular input: a table is a sequence of rows [zone, seg, val]; a table  *)
(* for a vector without zoning has no zone column (zone = 0 in every row). *)
(***************************************************************************)
Row(z, s, v) == [zone |-> z, seg |-> s, val |-> v]

\* The order of the segment column's strings.
SegOrder(s) ==
    CASE s = "A" -> 1
      [] s = "B" -> 2
      [] s = "X" -> 3
      [] OTHER -> 4

\* df.sort_values(by=sort_cols): any ordering of the rows that is sorted by
\* (segment, zone); rows that tie on the sort columns come in any order.
SortKey(r) == SegOrder(r.seg) * 10 + r.zone

IsSorted(s) == \A i \in 1..(Len(s) - 1) : SortKey(s[i]) <= SortKey(s[i + 1])

SortValues(df) ==
    {s \in {[i \in 1..Len(df) |-> df[p[i]]] : p \in Permutations(1..Len(df))} :
        IsSorted(s)}

(***************************************************************************)
(* pandas_utils.chunk_df                                                   *)
(***************************************************************************)
\* (mutant) the end of a chunk is taken one row early
ChunkDf_ShortChunks(df, chunk_size) ==
    LET starts == {i \in 0..(Len(df) - 1) : i % chunk_size = 0}
        n == Cardinality(starts)
    IN  [c \in 1..n |->
            LET i == (c - 1) * chunk_size
                chunk_end == IF i + chunk_size < Len(df) THEN i + chunk_size ELSE Len(df)
            IN  SubSeq(df, i + 1, chunk_end - 1)]

ChunkDf(df, chunk_size) ==
    LET starts == {i \in 0..(Len(df) - 1) : i % chunk_size = 0}
        n == Cardinality(starts)
    IN  [c \in 1..n |->
            LET i == (c - 1) * chunk_size
                chunk_end == IF i + chunk_size < Len(df) THEN i + chunk_size ELSE Len(df)
            IN  SubSeq(df, i + 1, chunk_end)]

(***************************************************************************)
(* DVector._dataframe_to_dvec_internal                                     *)
(***************************************************************************)
DataframeToDvecInternal(zoning, seg, df_chunk) ==
    LET segments == [i \in 1..Len(df_chunk) |-> df_chunk[i].seg]
        segment_set == Range(segments)
    IN  IF zoning = NoZoning
        THEN IF Cardinality(segment_set) # Len(segments) THEN Fail("ValueError")
             ELSE Data([s \in segment_set |->
                          VPy(df_chunk[CHOOSE i \in DOMAIN df_chunk :
                                           df_chunk[i].seg = s].val)])
        ELSE LET SegRows(s) == {i \in DOMAIN df_chunk : df_chunk[i].seg = s}
                 SegZones(s) == {df_chunk[i].zone : i \in SegRows(s)}
                 Invalid(s) == s \notin SegmentNames(seg)
                 DupZones(s) == Cardinality(SegZones(s)) # Cardinality(SegRows(s))
                 ExtraZones(s) == SegZones(s) \ Range(UniqueZones(zoning)) # {}
                 \* reindex(unique_zones, fill_value=0)
                 ZoneVal(s, z) ==
                     IF z \in SegZones(s)
                     THEN df_chunk[CHOOSE i \in SegRows(s) : df_chunk[i].zone = z].val
                     ELSE 0
             IN  IF \E s \in segment_set : Invalid(s) \/ DupZones(s) \/ ExtraZones(s)
                 THEN Fail("ValueError")
                 ELSE Data([s \in segment_set |->
                              VArr([j \in 1..NZones(zoning) |->
                                      ZoneVal(s, UniqueZones(zoning)[j])])])

(***************************************************************************)
(* utils.general.sum_dict_list: the dictionaries added together key by key *)
(***************************************************************************)
RECURSIVE SumDictList(_)
SumDictList(dict_list) ==
    IF dict_list = <<>> THEN NoData
    ELSE IF Len(dict_list) = 1 THEN dict_list[1]
    ELSE LET acc == SumDictList(SubSeq(dict_list, 1, Len(dict_list) - 1))
             item == dict_list[Len(dict_list)]
         IN  [key \in (DOMAIN acc) \cup (DOMAIN item) |->
                IF key \in DOMAIN acc /\ key \in DOMAIN item
                THEN NpAdd(acc[key], item[key])
                ELSE IF key \in DOMAIN acc THEN acc[key] ELSE item[key]]

(***************************************************************************)
(* DVector.__init__ and DVector._dataframe_to_dvec                         *)
(***************************************************************************)
\* process_count setter
ProcessCountSetter(x) == IF x < 0 THEN CpuCount + x ELSE x

\* The chunk size of the tabular conversion
DfChunkSize(n, df_chunk_size, process_count) ==
    IF n < df_chunk_size * process_count
    THEN CeilDiv(n, process_count)
    ELSE df_chunk_size

Pending == [err |-> "pending", data |-> NoData]

\* The missing segments infilled with copy.copy(default_val)
InfillMissing(zoning, seg, data, infill) ==
    [n \in (DOMAIN data) \cup SegmentNames(seg) |->
        IF n \in DOMAIN data THEN data[n] ELSE DefaultVal(zoning, infill)]

\* __init__ on a dictionary: the time format is validated, then the data
DVectorInit(zoning, seg, time_format, import_data, infill) ==
    LET tf == ValidateTimeFormat(seg, time_format)
        d == DictToDvec(zoning, seg, import_data, infill)
    IN  IF tf = "ValueError" THEN Raise("ValueError")
        ELSE IF d.err # "" THEN Raise(d.err)
        ELSE Vec(zoning, seg, tf, d.data)

\* A constructor call is made on a dictionary ...
ConstructFromDict ==
    /\ pc = "ready"
    /\ args.src = "dict"
    /\ res' = DVectorInit(args.zoning, args.seg, args.tf, args.dict, args.infill)
    /\ pc' = "done"
    /\ UNCHANGED <<args, chunks, outs, a, b, call>>

\* ... or on a table: validation, sort and partition into chunks,
DataframeStart ==
    /\ pc = "ready"
    /\ args.src = "df"
    /\ LET tf == ValidateTimeFormat(args.seg, args.tf)
           process_count == ProcessCountSetter(args.pcount)
           chunk_size == DfChunkSize(Len(args.rows), args.chunk, process_count)
       IN  IF tf = "ValueError"
           THEN /\ res' = Raise("ValueError")
                /\ pc' = "done"
                /\ UNCHANGED <<chunks, outs>>
           ELSE IF chunk_size = 0
           THEN \* math.ceil(len(df) / chunk_size)
                /\ res' = Raise("ZeroDivisionError")
                /\ pc' = "done"
                /\ UNCHANGED <<chunks, outs>>
           ELSE \E df \in SortValues(args.rows) :
                /\ chunks' = ChunkDf(df, chunk_size)
                /\ outs' = [i \in 1..Len(ChunkDf(df, chunk_size)) |-> Pending]
                /\ pc' = "workers"
                /\ UNCHANGED res
    /\ UNCHANGED <<args, a, b, call>>

\* the conversion of one chunk (in order when process_count is 0, else in
\* any order); an error in a worker ends the call,
DataframeWorker ==
    /\ pc = "workers"
    /\ \E i \in DOMAIN outs :
        /\ outs[i] = Pending
        /\ ProcessCountSetter(args.pcount) = 0 => \A j \in 1..(i - 1) : outs[j] # Pending
        /\ LET out == DataframeToDvecInternal(args.zoning, args.seg, chunks[i])
           IN  IF out.err # ""
               THEN /\ res' = Raise(out.err)
                    /\ pc' = "done"
                    /\ UNCHANGED outs
               ELSE /\ outs' = [outs EXCEPT ![i] = out]
                    /\ UNCHANGED <<res, pc>>
    /\ UNCHANGED <<args, chunks, a, b, call>>

\* and the merge of the chunks' dictionaries with the infill of what is missing.
DataframeFinish ==
    /\ pc = "workers"
    /\ \A i \in DOMAIN outs : outs[i] # Pending
    /\ LET data == SumDictList([i \in DOMAIN outs |-> outs[i].data])
       IN  res' = Vec(args.zoning, args.seg, ValidateTimeFormat(args.seg, args.tf),
                      InfillMissing(args.zoning, args.seg, data, args.infill))
    /\ pc' = "done"
    /\ UNCHANGED <<args, chunks, outs, a, b, call>>

(***************************************************************************)
(* The constructor calls of the model.                                     *)
(***************************************************************************)
Infills == {VPy(0), VNp(1)}

TfArgs == {TfNone, TfEnum("AVG_WEEK"), TfStr(" Avg_Day "), TfStr("weekly")}

\* Values of an input dictionary; for a zoned vector one array is too short.
DictVals(zoning) ==
    IF zoning = NoZoning THEN {VPy(1), VNp(2)}
    ELSE {VArr([i \in 1..NZones(zoning) |-> i]), VArr([i \in 1..NZones(zoning) |-> 0]),
          VArr(<<1>>)}

Dicts(zoning, seg) ==
    UNION {[K -> DictVals(zoning)] : K \in SUBSET (SegmentNames(seg) \cup {"X"})}

TableVals == {1, 2}

\* The rows of the input tables: valid ones, one of a zone that the zoning
\* does not have and one of a segment that the segmentation does not have.
TableRows(zoning) ==
    IF zoning = NoZoning
    THEN {Row(0, s, v) : s \in {"A", "B"}, v \in TableVals} \cup {Row(0, "X", 1)}
    ELSE {Row(z, s, v) : z \in Range(UniqueZones(zoning)), s \in {"A", "B"},
                         v \in TableVals}
         \cup {Row(NZones(zoning) + 1, "A", 1), Row(1, "X", 1)}

\* Tables as multisets of rows, each in one ascending and one descending order.
RowRank(r) == SortKey(r) * 10 + r.val

Tables(zoning) ==
    LET asc == UNION {{t \in [1..n -> TableRows(zoning)] :
                          \A i \in 1..(n - 1) : RowRank(t[i]) <= RowRank(t[i + 1])} :
                      n \in 0..MaxRows}
    IN  asc \cup {Reverse(t) : t \in asc}

TablesZoneless == Tables(NoZoning)

TablesZoned == Tables("zA")

\* process_count arguments: all cores but one, serial, one and two processes
ProcessCounts == {-1, 0, 1, 2}

NoCall == [op |-> "none", out_seg |-> "", variant |-> FALSE]

DictCalls(z, sg) ==
    [src : {"dict"}, zoning : {z}, seg : {sg}, tf : TfArgs, infill : Infills,
     dict : Dicts(z, sg), rows : {<<>>}, chunk : {1}, pcount : {0}]

DfCalls(z) ==
    [src : {"df"}, zoning : {z}, seg : {"ab"}, tf : {TfNone}, infill : Infills,
     dict : {NoData}, rows : IF z = NoZoning THEN TablesZoneless ELSE TablesZoned,
     chunk : 1..MaxChunk, pcount : ProcessCounts]

InitCtor ==
    /\ pc = "ready"
    /\ \E z \in {NoZoning, "zA"} :
          \/ \E sg \in {"ab", "tp"} : args \in DictCalls(z, sg)
          \/ args \in DfCalls(z)
    /\ chunks = <<>>
    /\ outs = <<>>
    /\ a = NoRes
    /\ b = NoRes
    /\ call = NoCall
    /\ res = NoRes

NextCtor ==
    \/ ConstructFromDict
    \/ DataframeStart
    \/ DataframeWorker
    \/ DataframeFinish

SpecCtor == InitCtor /\ [][NextCtor]_vars

(***************************************************************************)
(* The segmentation oracle's algebra.  A mapping is [ok, seg, map]: ok is  *)
(* FALSE when the oracle has no definition (it raises SegmentationError).  *)
(***************************************************************************)
NoMapping == [ok |-> FALSE, seg |-> "", map |-> <<>>]

Mapping(seg, map) == [ok |-> TRUE, seg |-> seg, map |-> map]

Identity(seg) == [n \in SegmentNames(seg) |-> <<n, n>>]

\* self.segmentation * other.segmentation: result name -> (self name, other name)
SegMultiply(s1, s2) ==
    CASE s1 = s2 /\ s1 \in {"ab", "tp", "c"} -> Mapping(s1, Identity(s1))
      [] s1 = "ab" /\ s2 = "c" -> Mapping("ab", [n \in {"A", "B"} |-> <<n, "C">>])
      [] s1 = "ab" /\ s2 = "tp" ->
            Mapping("ab_tp", [n \in SegmentNames("ab_tp") |->
                CASE n = "A_tp1" -> <<"A", "tp1">>
                  [] n = "A_tp5" -> <<"A", "tp5">>
                  [] n = "B_tp1" -> <<"B", "tp1">>
                  [] n = "B_tp5" -> <<"B", "tp5">>])
      [] OTHER -> NoMapping

\* segmentation.aggregate(out_segmentation): output name -> input names
SegAggregate(s, out) ==
    CASE s = "ab" /\ out = "c" -> Mapping("c", [n \in {"C"} |-> <<"A", "B">>])
      [] s = "tp" /\ out = "c" -> Mapping("c", [n \in {"C"} |-> <<"tp1", "tp5">>])
      [] s = out /\ s \in {"ab", "tp", "c"} ->
            Mapping(s, [n \in SegmentNames(s) |-> <<n>>])
      [] s = "ab_tp" /\ out = "ab" ->
            Mapping("ab", [n \in {"A", "B"} |->
                IF n = "A" THEN <<"A_tp1", "A_tp5">> ELSE <<"B_tp1", "B_tp5">>])
      [] s = "ab_tp" /\ out = "tp" ->
            Mapping("tp", [n \in {"tp1", "tp5"} |->
                IF n = "tp1" THEN <<"A_tp1", "B_tp1">> ELSE <<"A_tp5", "B_tp5">>])
      [] s = "ab_tp" /\ out = "c" ->
            Mapping("c", [n \in {"C"} |-> <<"A_tp1", "A_tp5", "B_tp1", "B_tp5">>])
      [] OTHER -> NoMapping

\* segmentation.split_tfntt_segmentation(out_segmentation): the regrouping of
\* a segmentation with a compound segment (here ab), output name -> input names
SegSplitTfntt(s, out) ==
    CASE s = "ab" /\ out = "c" -> Mapping("c", [n \in {"C"} |-> <<"B", "A">>])
      [] s = "ab" /\ out = "ab" -> Mapping("ab", [n \in {"A", "B"} |-> <<n>>])
      [] OTHER -> NoMapping

(***************************************************************************)
(* DVector._choose_time_format                                             *)
(***************************************************************************)
\* (mutant) the time format of other is preferred
ChooseTimeFormat_PreferOther(self, other) ==
    [tf |-> IF other.tf # NoTf THEN other.tf ELSE self.tf,
     warned |-> self.tf # NoTf /\ other.tf # NoTf /\ self.tf # other.tf]

\* The time format to keep, and whether the warning was given
ChooseTimeFormat(self, other) ==
    [tf |-> IF self.tf # NoTf THEN self.tf
            ELSE IF other.tf # NoTf THEN other.tf
            ELSE NoTf,
     warned |-> self.tf # NoTf /\ other.tf # NoTf /\ self.tf # other.tf]

\* A TimeFormat (or None) passed as the time_format argument
TfArg(tf) == IF tf = NoTf THEN TfNone ELSE TfEnum(tf)

(***************************************************************************)
(* DVector.__mul__                                                         *)
(***************************************************************************)
\* (mutant) the zoning of self is kept also when self has none
MulZoning_KeepSelf(self, other) ==
    IF self.zoning = other.zoning \/ self.zoning = NoZoning \/ other.zoning = NoZoning
    THEN self.zoning
    ELSE "ZoningError"

\* The zoning of the product, or "ZoningError"
MulZoning(self, other) ==
    IF self.zoning = other.zoning THEN self.zoning
    ELSE IF self.zoning = NoZoning THEN other.zoning
    ELSE IF other.zoning = NoZoning THEN self.zoning
    ELSE "ZoningError"

\* (mutant) both factors are read from self
MulData_SelfTwice(self, other, multiply_dict) ==
    [final_seg \in DOMAIN multiply_dict |->
        NpMul(self.data[multiply_dict[final_seg][1]],
              self.data[multiply_dict[final_seg][1]])]

\* dvec_data[final_seg] = self._data[self_key] * other._data[other_key]
MulData(self, other, multiply_dict) ==
    [final_seg \in DOMAIN multiply_dict |->
        NpMul(self.data[multiply_dict[final_seg][1]],
              other.data[multiply_dict[final_seg][2]])]

Mul(self, other) ==
    LET return_zoning_system == MulZoning(self, other)
        m == SegMultiply(self.seg, other.seg)
        chosen == ChooseTimeFormat(self, other)
    IN  IF return_zoning_system = "ZoningError" THEN Raise("ZoningError")
        ELSE IF ~m.ok THEN Raise("SegmentationError")
        ELSE IF \E n \in DOMAIN m.map :
                    ~Broadcastable(self.data[m.map[n][1]], other.data[m.map[n][2]])
        THEN Raise("ValueError")
        ELSE [DVectorInit(return_zoning_system, m.seg, TfArg(chosen.tf),
                          MulData(self, other, m.map), VPy(0))
              EXCEPT !.warned = chosen.warned]

(***************************************************************************)
(* DVector.aggregate                                                       *)
(***************************************************************************)
\* (mutant) the last array of the list instead of the sum of the list
NpSumAxis0_LastOnly(in_lst) == in_lst[Len(in_lst)]

RECURSIVE NpSumAxis0(_)
\* np.sum(in_lst, axis=0) of a list of flattened arrays of one length
NpSumAxis0(in_lst) ==
    IF Len(in_lst) = 1 THEN in_lst[1]
    ELSE NpAdd(NpSumAxis0(SubSeq(in_lst, 1, Len(in_lst) - 1)), in_lst[Len(in_lst)])

\* (mutant) only the first of the listed segments is kept
AggregateData_FirstOnly(self, aggregation_dict) ==
    [out_seg_name \in DOMAIN aggregation_dict |->
        Flatten(self.data[aggregation_dict[out_seg_name][1]])]

AggregateData(self, aggregation_dict) ==
    [out_seg_name \in DOMAIN aggregation_dict |->
        NpSumAxis0([i \in 1..Len(aggregation_dict[out_seg_name]) |->
                       Flatten(self.data[aggregation_dict[out_seg_name][i]])])]

Aggregate(self, out_segmentation, split_tfntt_segmentation) ==
    LET m == IF split_tfntt_segmentation
             THEN SegSplitTfntt(self.seg, out_segmentation)
             ELSE SegAggregate(self.seg, out_segmentation)
    IN  IF ~m.ok THEN Raise("SegmentationError")
        ELSE IF \E n \in DOMAIN m.map : \E i \in DOMAIN m.map[n] :
                    ~HasNumpyMethods(self.data[m.map[n][i]])
        THEN Raise("AttributeError")
        ELSE DVectorInit(self.zoning, out_segmentation, TimeFormatProperty(self.tf),
                         AggregateData(self, m.map), VPy(0))

(***************************************************************************)
(* Operator calls: self and other are vectors that the constructor         *)
(* returns for values of the shape that its zoning asks for.               *)
(***************************************************************************)
Shapes == {"py", "np", "zA", "zB"}

ShapeZoning(shape) == IF shape \in {"py", "np"} THEN NoZoning ELSE shape

ShapeVals(shape) ==
    CASE shape = "py" -> {VPy(x) : x \in 0..MaxVal}
      [] shape = "np" -> {VNp(x) : x \in 0..MaxVal}
      [] OTHER -> {VArr(x) : x \in [1..NZones(shape) -> 0..MaxVal]}

OperandTfs(seg) ==
    IF HasTimePeriodSegments(seg) THEN {"AVG_WEEK", "AVG_DAY"} ELSE {NoTf, "AVG_WEEK"}

Operands(shape, seg) ==
    [kind : {"vec"}, err : {""}, zoning : {ShapeZoning(shape)}, seg : {seg},
     tf : OperandTfs(seg), data : [SegmentNames(seg) -> ShapeVals(shape)],
     warned : {FALSE}]

OperandSegs == {"ab", "tp", "c"}

InitOps ==
    /\ pc = "ready"
    /\ args = <<>>
    /\ chunks = <<>>
    /\ outs = <<>>
    /\ \E shape \in Shapes, seg \in OperandSegs : a \in Operands(shape, seg)
    /\ \/ b = NoRes
       \/ \E shape \in Shapes, seg \in OperandSegs : b \in Operands(shape, seg)
    /\ call = NoCall
    /\ res = NoRes

\* self * other
CallMul ==
    /\ pc = "ready"
    /\ b # NoRes
    /\ call' = [op |-> "mul", out_seg |-> "", variant |-> FALSE]
    /\ res' = Mul(a, b)
    /\ pc' = "done"
    /\ UNCHANGED <<args, chunks, outs, a, b>>

\* self.aggregate(out_segmentation, split_tfntt_segmentation)
CallAggregate ==
    /\ pc = "ready"
    /\ b = NoRes
    /\ \E out \in Segmentations, variant \in BOOLEAN :
          /\ call' = [op |-> "aggregate", out_seg |-> out, variant |-> variant]
          /\ res' = Aggregate(a, out, variant)
    /\ pc' = "done"
    /\ UNCHANGED <<args, chunks, outs, a, b>>

NextOps ==
    \/ CallMul
    \/ CallAggregate

SpecOps == InitOps /\ [][NextOps]_vars

(***************************************************************************)
(* Chunked operators.  self._chunk_divider is set by the constructor from  *)
(* the process count; utils.general.chunk_list cuts a list of keys into    *)
(* consecutive chunks of chunk_size keys; multiprocessing.multiprocess     *)
(* runs the internal function on every chunk and returns the outputs, in   *)
(* the model in any order.                                                 *)
(***************************************************************************)
ChunkDivider(process_count) == IF process_count = 0 THEN 1 ELSE process_count * 3

\* (mutant) every chunk but the last takes the first item of the next one too
ChunkList_Overlapping(lst, chunk_size) ==
    [c \in 1..CeilDiv(Len(lst), chunk_size) |->
        SubSeq(lst, (c - 1) * chunk_size + 1,
               IF c * chunk_size < Len(lst) THEN c * chunk_size + 1 ELSE Len(lst))]

ChunkList(lst, chunk_size) ==
    [c \in 1..CeilDiv(Len(lst), chunk_size) |->
        SubSeq(lst, (c - 1) * chunk_size + 1,
               IF c * chunk_size < Len(lst) THEN c * chunk_size ELSE Len(lst))]

Restrict(d, keys) == [k \in keys |-> d[k]]

\* dvec_data = dict.fromkeys(keys), then dvec_data[k] = d[k] for the keys of d
FromKeys(keys, d) == [k \in keys \cup DOMAIN d |-> IF k \in DOMAIN d THEN d[k] ELSE VNone]

\* dict.update
DictUpdate(d, chunk) ==
    [k \in (DOMAIN d) \cup (DOMAIN chunk) |-> IF k \in DOMAIN chunk THEN chunk[k] ELSE d[k]]

RECURSIVE UpdateAll(_, _)
\* for chunk in data_chunks: dvec_data.update(chunk)
UpdateAll(dvec_data, data_chunks) ==
    IF data_chunks = <<>> THEN dvec_data
    ELSE UpdateAll(DictUpdate(dvec_data, Head(data_chunks)), Tail(data_chunks))

\* The outputs of the workers in the order multiprocess returns them
Returned(data_chunks, order) == [i \in DOMAIN order |-> data_chunks[order[i]]]

(***************************************************************************)
(* DVector.multiply_and_aggregate                                          *)
(***************************************************************************)
MultiplyAndAggregateInternal(aggregation_keys_chunk, aggregation_dict, multiply_dict, self_data, other_data) ==
    LET Left(segment_name) == self_data[multiply_dict[segment_name][1]]
        Right(segment_name) == other_data[multiply_dict[segment_name][2]]
        Used == UNION {Range(aggregation_dict[o]) : o \in Range(aggregation_keys_chunk)}
    IN  IF \E n \in Used : ~Broadcastable(Left(n), Right(n)) THEN Fail("ValueError")
        ELSE IF \E n \in Used : ~HasNumpyMethods(NpMul(Left(n), Right(n)))
        THEN Fail("AttributeError")
        ELSE Data([out_seg_name \in Range(aggregation_keys_chunk) |->
                NpSumAxis0([j \in 1..Len(aggregation_dict[out_seg_name]) |->
                    Flatten(NpMul(Left(aggregation_dict[out_seg_name][j]),
                                  Right(aggregation_dict[out_seg_name][j])))])])

\* (mutant) every worker is given all the data of self and of other
MulAggKwargs_AllData(self, other, multiply_dict, aggregation_dict, process_count) ==
    LET total == Cardinality(DOMAIN aggregation_dict)
        chunk_size == CeilDiv(total, ChunkDivider(process_count))
        key_chunks == ChunkList(SetToSeq(DOMAIN aggregation_dict), chunk_size)
    IN  [c \in DOMAIN key_chunks |->
            [aggregation_keys_chunk |-> key_chunks[c],
             aggregation_dict |-> Restrict(aggregation_dict, Range(key_chunks[c])),
             multiply_dict |-> multiply_dict,
             self_data |-> self.data,
             other_data |-> other.data]]

\* The keyword arguments of the workers, one record for each chunk of keys
MulAggKwargs(self, other, multiply_dict, aggregation_dict, process_count) ==
    LET total == Cardinality(DOMAIN aggregation_dict)
        chunk_size == CeilDiv(total, ChunkDivider(process_count))
        key_chunks == ChunkList(SetToSeq(DOMAIN aggregation_dict), chunk_size)
    IN  [c \in DOMAIN key_chunks |->
            LET keys_chunk == key_chunks[c]
                agg_dict_subset == Restrict(aggregation_dict, Range(keys_chunk))
                key_subset == UNION {Range(agg_dict_subset[k]) : k \in DOMAIN agg_dict_subset}
                mult_dict_subset == Restrict(multiply_dict, key_subset)
                self_keys == {mult_dict_subset[k][1] : k \in key_subset}
                other_keys == {mult_dict_subset[k][2] : k \in key_subset}
            IN  [aggregation_keys_chunk |-> keys_chunk,
                 aggregation_dict |-> agg_dict_subset,
                 multiply_dict |-> mult_dict_subset,
                 self_data |-> Restrict(self.data, self_keys),
                 other_data |-> Restrict(other.data, other_keys)]]

MulAggOuts(kwarg_list) ==
    [c \in DOMAIN kwarg_list |->
        MultiplyAndAggregateInternal(kwarg_list[c].aggregation_keys_chunk,
                                     kwarg_list[c].aggregation_dict,
                                     kwarg_list[c].multiply_dict,
                                     kwarg_list[c].self_data,
                                     kwarg_list[c].other_data)]

\* The vector that is built from the outputs of the workers
MulAggResult(self, other, out_segmentation, data_chunks) ==
    LET chosen == ChooseTimeFormat(self, other)
        failed == {c \in DOMAIN data_chunks : data_chunks[c].err # ""}
    IN  IF failed # {} THEN Raise(data_chunks[CHOOSE c \in failed : TRUE].err)
        ELSE [DVectorInit(self.zoning, out_segmentation, TfArg(chosen.tf),
                          UpdateAll(NoData, [c \in DOMAIN data_chunks |-> data_chunks[c].data]),
                          VPy(0))
              EXCEPT !.warned = chosen.warned]

\* self.multiply_and_aggregate(other, out_segmentation) of a vector self that
\* was built with the process count args.pcount
CallMultiplyAndAggregate ==
    /\ pc = "ready"
    /\ \E out \in Segmentations :
        LET m == SegMultiply(a.seg, b.seg)
            agg == IF m.ok THEN SegAggregate(m.seg, out) ELSE NoMapping
        IN  /\ call' = [op |-> "multiply_and_aggregate", out_seg |-> out, variant |-> FALSE]
            /\ IF ~m.ok \/ ~agg.ok
               THEN /\ res' = Raise("SegmentationError")
                    /\ UNCHANGED <<chunks, outs>>
               ELSE /\ chunks' = MulAggKwargs(a, b, m.map, agg.map,
                                              ProcessCountSetter(args.pcount))
                    /\ outs' = MulAggOuts(chunks')
                    /\ \E order \in Permutations(DOMAIN outs') :
                          res' = MulAggResult(a, b, out, Returned(outs', order))
    /\ pc' = "done"
    /\ UNCHANGED <<args, a, b>>

\* The operands of multiply_and_aggregate: self of segmentation ab or tp,
\* other of segmentation c or tp
InitMulAgg ==
    /\ pc = "ready"
    /\ args \in [pcount : ProcessCounts]
    /\ chunks = <<>>
    /\ outs = <<>>
    /\ \E shape \in Shapes, seg \in {"ab", "tp"} : a \in Operands(shape, seg)
    /\ \E shape \in Shapes, seg \in {"c", "tp"} : b \in Operands(shape, seg)
    /\ call = NoCall
    /\ res = NoRes

NextMulAgg == CallMultiplyAndAggregate

SpecMulAgg == InitMulAgg /\ [][NextMulAgg]_vars

(***************************************************************************)
(* DVector.translate_zoning.  A translation is a matrix, a sequence of     *)
(* rows: translation[i][j] is the share of zone i that zone j receives.    *)
(* The zoning oracle may return any matrix of the shape (zones of the      *)
(* vector, zones of new_zoning) with entries of Weights.                   *)
(***************************************************************************)
TranslateZoningMinChunkSize == 700

Weights == {0, 1}

ZoningTranslate(zoning, new_zoning) ==
    [1..NZones(zoning) -> [1..NZones(new_zoning) -> Weights]]

\* self._data.keys() in the order of the dictionary
DataKeys(self) ==
    IF self.seg = "big" THEN [i \in 1..BigSegments |-> i] ELSE SetToSeq(DOMAIN self.data)

\* (mutant) the last source zone is left out of the sum
TranslateValue_SkipLast(value, translation) ==
    VArr([j \in 1..Len(translation[1]) |->
            SumSeq([i \in 1..(Len(translation) - 1) |-> value.x[i] * translation[i][j]])])

\* (mutant) the source zones are not summed: the row of the first zone is kept
TranslateValue_FirstRow(value, translation) ==
    VArr([j \in 1..Len(translation[1]) |-> value.x[1] * translation[1][j]])

\* np.broadcast_to(np.expand_dims(value, axis=1), shape) * translation, summed
\* over axis 0
TranslateValue(value, translation) ==
    LET At(i) == IF Len(value.x) = 1 THEN value.x[1] ELSE value.x[i]
    IN  VArr([j \in 1..Len(translation[1]) |->
                SumSeq([i \in 1..Len(translation) |-> At(i) * translation[i][j]])])

TranslateZoningInternal(self_data, translation) ==
    IF \E key \in DOMAIN self_data : ~HasNumpyMethods(self_data[key])
    THEN Fail("AttributeError")
    ELSE IF \E key \in DOMAIN self_data : Len(self_data[key].x) \notin {Len(translation), 1}
    THEN Fail("ValueError")
    ELSE Data([key \in DOMAIN self_data |-> TranslateValue(self_data[key], translation)])

TranslateChunkSize(total, process_count) ==
    LET chunk_size == CeilDiv(total, ChunkDivider(process_count))
    IN  IF chunk_size < TranslateZoningMinChunkSize THEN TranslateZoningMinChunkSize
        ELSE chunk_size

TranslateKwargs(self, translation, process_count) ==
    LET key_chunks == ChunkList(DataKeys(self),
                                TranslateChunkSize(Cardinality(DOMAIN self.data), process_count))
    IN  [c \in DOMAIN key_chunks |->
            [self_data |-> Restrict(self.data, Range(key_chunks[c])),
             translation |-> translation]]

TranslateOuts(kwarg_list) ==
    [c \in DOMAIN kwarg_list |->
        TranslateZoningInternal(kwarg_list[c].self_data, kwarg_list[c].translation)]

TranslateResult(self, new_zoning, data_chunks) ==
    LET failed == {c \in DOMAIN data_chunks : data_chunks[c].err # ""}
    IN  IF failed # {} THEN Raise(data_chunks[CHOOSE c \in failed : TRUE].err)
        ELSE DVectorInit(new_zoning, self.seg, TimeFormatProperty(self.tf),
                         UpdateAll(NoData, [c \in DOMAIN data_chunks |-> data_chunks[c].data]),
                         VPy(0))

\* self.translate_zoning(new_zoning) with the oracle's matrix, and what the
\* call leaves in chunks, outs and res
TranslateZoning(self, new_zoning, translation) ==
    IF self.zoning = NoZoning
    THEN \* self.zoning_system.name of None
         /\ res' = Raise("AttributeError")
         /\ UNCHANGED <<chunks, outs>>
    ELSE /\ chunks' = TranslateKwargs(self, translation, ProcessCountSetter(args.pcount))
         /\ outs' = TranslateOuts(chunks')
         /\ \E order \in Permutations(DOMAIN outs') :
               res' = TranslateResult(self, new_zoning, Returned(outs', order))

\* a.translate_zoning(new_zoning)
CallTranslateZoning ==
    /\ pc = "ready"
    /\ \E new_zoning \in {"zB", "zC"} :
        \E translation \in ZoningTranslate(IF a.zoning = NoZoning THEN "zB" ELSE a.zoning,
                                           new_zoning) :
            /\ TranslateZoning(a, new_zoning, translation)
            /\ call' = [op |-> "translate_zoning", out_seg |-> new_zoning, variant |-> FALSE]
            /\ args' = [args EXCEPT !.first = translation]
    /\ pc' = "done"
    /\ UNCHANGED <<a, b>>

\* then the translation of the result back into the zoning of a
CallTranslateBack ==
    /\ pc = "done"
    /\ call.op = "translate_zoning"
    /\ IsVec(res)
    /\ \E translation \in ZoningTranslate(res.zoning, a.zoning) :
            /\ TranslateZoning(res, a.zoning, translation)
            /\ args' = [args EXCEPT !.second = translation]
    /\ call' = [op |-> "translate_back", out_seg |-> a.zoning, variant |-> FALSE]
    /\ b' = res
    /\ pc' = "done"
    /\ UNCHANGED a

\* A vector of the segmentation big: the last segment holds last, the others
\* hold fill
BigOperand(fill, last) ==
    Vec("zA", "big", NoTf, [n \in 1..BigSegments |-> IF n = BigSegments THEN last ELSE fill])

InitZoning ==
    /\ pc = "ready"
    /\ args \in [pcount : ProcessCounts, first : {<<>>}, second : {<<>>}]
    /\ chunks = <<>>
    /\ outs = <<>>
    /\ \/ \E shape \in {"np", "zA"}, seg \in {"ab", "tp"} : a \in Operands(shape, seg)
       \/ a = BigOperand(VArr(<<1, 0>>), VArr(<<0, 1>>))
    /\ b = NoRes
    /\ call = NoCall
    /\ res = NoRes

NextZoning ==
    \/ CallTranslateZoning
    \/ CallTranslateBack

SpecZoning == InitZoning /\ [][NextZoning]_vars

(***************************************************************************)
(* DVector.sum: np.sum([x.flatten() for x in self._data.values()]), which  *)
(* needs every value to have numpy's flatten.                              *)
(***************************************************************************)
Total(data) ==
    LET keys == SetToSeq(DOMAIN data)
    IN  SumSeq([i \in 1..Len(keys) |-> SumSeq(data[keys[i]].x)])

DVectorSum(v) ==
    IF \E key \in DOMAIN v.data : ~HasNumpyMethods(v.data[key])
    THEN [err |-> "AttributeError", val |-> 0]
    ELSE [err |-> "", val |-> Total(v.data)]

(***************************************************************************)
(* DVector.sum_is_close: math.isclose(self.sum(), other.sum()) with the    *)
(* default rel_tol of 0.0001 = 1 / RelTolDenominator and abs_tol of 0.     *)
(***************************************************************************)
RelTolDenominator == 10000

Abs(x) == IF x < 0 THEN -x ELSE x

Max(x, y) == IF x < y THEN y ELSE x

MathIsClose(x, y) == x = y \/ RelTolDenominator * Abs(x - y) <= Max(Abs(x), Abs(y))

\* (mutant) every pair of totals is close
SumIsClose_Always(self, other) ==
    IF DVectorSum(self).err # "" THEN [err |-> DVectorSum(self).err, val |-> FALSE]
    ELSE IF DVectorSum(other).err # "" THEN [err |-> DVectorSum(other).err, val |-> FALSE]
    ELSE [err |-> "", val |-> TRUE]

SumIsClose(self, other) ==
    IF DVectorSum(self).err # "" THEN [err |-> DVectorSum(self).err, val |-> FALSE]
    ELSE IF DVectorSum(other).err # "" THEN [err |-> DVectorSum(other).err, val |-> FALSE]
    ELSE [err |-> "", val |-> MathIsClose(DVectorSum(self).val, DVectorSum(other).val)]

(***************************************************************************)
(* DVector.expand_segmentation                                             *)
(***************************************************************************)
\* self.segmentation.expand(other.segmentation): result name -> (self name,
\* other name)
SegExpand(s1, s2) ==
    CASE s1 = "c" /\ s2 = "ab" -> Mapping("ab", [n \in {"A", "B"} |-> <<"C", n>>])
      [] s1 = "c" /\ s2 = "tp" -> Mapping("tp", [n \in {"tp1", "tp5"} |-> <<"C", n>>])
      [] s1 = "ab" /\ s2 = "tp" -> SegMultiply("ab", "tp")
      [] OTHER -> NoMapping

ExpandData(self, expansion_dvec, expand_dict) ==
    [final_seg \in DOMAIN expand_dict |->
        NpMul(self.data[expand_dict[final_seg][1]],
              expansion_dvec.data[expand_dict[final_seg][2]])]

ExpandSegmentation(self, expansion_dvec) ==
    LET m == SegExpand(self.seg, expansion_dvec.seg)
        expanded_dvec == DVectorInit(self.zoning, m.seg, TfNone,
                                     ExpandData(self, expansion_dvec, m.map), VPy(0))
        close == SumIsClose(self, expanded_dvec)
    IN  IF self.zoning # NoZoning /\ expansion_dvec.zoning \notin {self.zoning, NoZoning}
        THEN Raise("ValueError")
        ELSE IF ~m.ok THEN Raise("SegmentationError")
        ELSE IF \E n \in DOMAIN m.map :
                    ~Broadcastable(self.data[m.map[n][1]], expansion_dvec.data[m.map[n][2]])
        THEN Raise("ValueError")
        ELSE IF IsErr(expanded_dvec) THEN expanded_dvec
        ELSE IF close.err # "" THEN Raise(close.err)
        ELSE IF ~close.val THEN Raise("ValueError")
        ELSE expanded_dvec

\* Operands whose values hold numbers of nums and whose time format is of tfs
OperandsOf(shape, seg, nums, tfs) ==
    [kind : {"vec"}, err : {""}, zoning : {ShapeZoning(shape)}, seg : {seg}, tf : tfs,
     data : [SegmentNames(seg) ->
                CASE shape = "py" -> {VPy(x) : x \in nums}
                  [] shape = "np" -> {VNp(x) : x \in nums}
                  [] OTHER -> {VArr(x) : x \in [1..NZones(shape) -> nums]}],
     warned : {FALSE}]

\* self.expand_segmentation(expansion_dvec)
CallExpandSegmentation ==
    /\ pc = "ready"
    /\ call' = [op |-> "expand_segmentation", out_seg |-> "", variant |-> FALSE]
    /\ res' = ExpandSegmentation(a, b)
    /\ pc' = "done"
    /\ UNCHANGED <<args, chunks, outs, a, b>>

\* self holds demand of 0, 1 or RelTolDenominator, the expansion vector holds
\* weights 0..MaxVal
InitExpand ==
    /\ pc = "ready"
    /\ args = <<>>
    /\ chunks = <<>>
    /\ outs = <<>>
    /\ \E shape \in Shapes, seg \in {"c", "ab"} :
          a \in OperandsOf(shape, seg, {0, 1, RelTolDenominator}, {NoTf, "AVG_WEEK"})
    /\ \E shape \in Shapes, seg \in {"ab", "tp"} :
          b \in OperandsOf(shape, seg, 0..MaxVal, {NoTf})
    /\ call = NoCall
    /\ res = NoRes

NextExpand == CallExpandSegmentation

SpecExpand == InitExpand /\ [][NextExpand]_vars

(***************************************************************************)
(* The two chunked operators on the same operands.                         *)
(***************************************************************************)
\* The operands of multiply_and_aggregate and translate_zoning: self is
\* zoned, of the segmentation ab, tp or big; other is zoneless, of the
\* segmentation c or tp
InitChunked ==
    /\ pc = "ready"
    /\ args \in [pcount : ProcessCounts, first : {<<>>}, second : {<<>>}]
    /\ chunks = <<>>
    /\ outs = <<>>
    /\ \/ a \in OperandsOf("zA", "ab", 0..MaxVal, {NoTf})
       \/ a \in OperandsOf("zA", "tp", 0..MaxVal, {"AVG_WEEK"})
       \/ a = BigOperand(VArr(<<1, 0>>), VArr(<<0, 1>>))
    /\ \/ b \in OperandsOf("np", "c", 0..MaxVal, {NoTf})
       \/ b \in OperandsOf("np", "tp", 0..MaxVal, {"AVG_DAY"})
    /\ call = NoCall
    /\ res = NoRes

NextChunked ==
    \/ CallMultiplyAndAggregate
    \/ CallTranslateZoning

SpecChunked == InitChunked /\ [][NextChunked]_vars

(***************************************************************************)
(* The chunk sizes of the four chunked operations, for total items of work *)
(* (the rows of the sorted table, the keys of a dictionary): args.n is     *)
(* total, args.pcount the process_count argument and args.chunk the        *)
(* df_chunk_size argument.  A step leaves the chunk size in outs and the   *)
(* chunks in chunks.                                                       *)
(***************************************************************************)
ToDfMinChunkSize == 400

\* to_df: the chunk size is at least _to_df_min_chunk_size
ToDfChunkSize(total, process_count) ==
    LET chunk_size == CeilDiv(total, ChunkDivider(process_count))
    IN  IF chunk_size < ToDfMinChunkSize THEN ToDfMinChunkSize ELSE chunk_size

\* multiply_and_aggregate: chunk_size = math.ceil(total / self._chunk_divider)
MulAggChunkSize(total, process_count) == CeilDiv(total, ChunkDivider(process_count))

Items(n) == [i \in 1..n |-> i]

\* The chunks of n items for a chunk size; with a chunk size that is not
\* positive there are no chunks to work on
Sizes(op, chunk_size, err) ==
    /\ pc = "ready"
    /\ call' = [op |-> op, out_seg |-> "", variant |-> FALSE]
    /\ outs' = [chunk_size |-> chunk_size, err |-> IF chunk_size > 0 THEN "" ELSE err]
    /\ chunks' = IF chunk_size <= 0 THEN <<>>
                 ELSE IF op = "dataframe_to_dvec" THEN ChunkDf(Items(args.n), chunk_size)
                 ELSE ChunkList(Items(args.n), chunk_size)
    /\ pc' = "done"
    /\ UNCHANGED <<args, a, b, res>>

\* _dataframe_to_dvec: math.ceil(len(df) / chunk_size) divides by the size
SizeDataframeToDvec ==
    Sizes("dataframe_to_dvec",
          DfChunkSize(args.n, args.chunk, ProcessCountSetter(args.pcount)),
          "ZeroDivisionError")

SizeMultiplyAndAggregate ==
    Sizes("multiply_and_aggregate",
          MulAggChunkSize(args.n, ProcessCountSetter(args.pcount)), "ValueError")

SizeTranslateZoning ==
    Sizes("translate_zoning",
          TranslateChunkSize(args.n, ProcessCountSetter(args.pcount)), "ValueError")

SizeToDf ==
    Sizes("to_df", ToDfChunkSize(args.n, ProcessCountSetter(args.pcount)), "ValueError")

\* Work of 0 to MaxWork items and of one item more than the two minimum
\* chunk sizes; process counts from one below minus the number of cores
InitChunkSize ==
    /\ pc = "ready"
    /\ args \in [n : (0..MaxWork) \cup {ToDfMinChunkSize + 1, TranslateZoningMinChunkSize + 1},
                 pcount : (-(CpuCount + 1))..CpuCount,
                 chunk : 1..MaxChunk]
    /\ chunks = <<>>
    /\ outs = <<>>
    /\ a = NoRes
    /\ b = NoRes
    /\ call = NoCall
    /\ res = NoRes

NextChunkSize ==
    \/ SizeDataframeToDvec
    \/ SizeMultiplyAndAggregate
    \/ SizeTranslateZoning
    \/ SizeToDf

SpecChunkSize == InitChunkSize /\ [][NextChunkSize]_vars

(***************************************************************************)
(* Floats that a division made: a number is [n, d], the fraction n / d in  *)
(* lowest terms with d > 0; d = 0 is what numpy's division by zero gives   *)
(* without raising: [1, 0] is inf, [-1, 0] is -inf and [0, 0] is nan.      *)
(***************************************************************************)
RECURSIVE Gcd(_, _)
Gcd(x, y) == IF y = 0 THEN x ELSE Gcd(y, x % y)

Sign(x) == IF x > 0 THEN 1 ELSE IF x < 0 THEN -1 ELSE 0

Frac(n, d) ==
    IF d = 0 THEN [n |-> Sign(n), d |-> 0]
    ELSE LET g == Gcd(Abs(n), Abs(d))
         IN  [n |-> Sign(d) * (n \div g), d |-> Abs(d) \div g]

Float(x) == [n |-> x, d |-> 1]

Nan == [n |-> 0, d |-> 0]

IsFinite(p) == p.d # 0

FMul(p, q) == Frac(p.n * q.n, p.d * q.d)

FDiv(p, q) == Frac(p.n * q.d, p.d * q.n)

FAdd(p, q) ==
    IF p.d = 0 /\ q.d = 0 THEN (IF p = q THEN p ELSE Nan)
    ELSE Frac(p.n * q.d + q.n * p.d, p.d * q.d)

RECURSIVE FSum(_)
FSum(s) == IF s = <<>> THEN Float(0) ELSE FAdd(Head(s), FSum(Tail(s)))

\* The numbers of a value as floats
Floats(v) == [i \in DOMAIN v.x |-> Float(v.x[i])]

\* np.mean of a value
NpMean(v) == FDiv(FSum(Floats(v)), Float(Len(v.x)))

\* value * factor for a numpy float factor: a numpy scalar or an array
ScaleBy(v, factor) ==
    [k |-> IF v.k = "arr" THEN "arr" ELSE "np",
     x |-> [i \in DOMAIN v.x |-> FMul(Float(v.x[i]), factor)]]

(***************************************************************************)
(* DVector.split_segmentation_like                                         *)
(***************************************************************************)
\* self.segmentation.split(other.segmentation): name of self -> names of other
SegSplit(s1, s2) ==
    CASE s1 = "c" /\ s2 \in {"ab", "tp"} -> SegAggregate(s2, "c")
      [] s1 = "ab" /\ s2 = "ab_tp" -> SegAggregate("ab_tp", "ab")
      [] OTHER -> NoMapping

\* (mutant) the averages of other are used as they are, not normalised
SplitFactors_NotNormalised(other, out_seg_names) ==
    [i \in DOMAIN out_seg_names |-> NpMean(other.data[out_seg_names[i]])]

\* split_factors = other_segs / np.sum(other_segs)
SplitFactors(other, out_seg_names) ==
    LET other_segs == [i \in DOMAIN out_seg_names |-> NpMean(other.data[out_seg_names[i]])]
    IN  [i \in DOMAIN out_seg_names |-> FDiv(other_segs[i], FSum(other_segs))]

SplitData(self, other, split_dict) ==
    LET Coarse(name) == CHOOSE in_seg_name \in DOMAIN split_dict :
                            name \in Range(split_dict[in_seg_name])
        Index(name) == CHOOSE i \in DOMAIN split_dict[Coarse(name)] :
                            split_dict[Coarse(name)][i] = name
    IN  [name \in UNION {Range(split_dict[c]) : c \in DOMAIN split_dict} |->
            ScaleBy(self.data[Coarse(name)],
                    SplitFactors(other, split_dict[Coarse(name)])[Index(name)])]

\* split_segmentation_like for the answer m of self.segmentation.split
SplitWith(self, other, m) ==
    LET chosen == ChooseTimeFormat(self, other)
    IN  IF ~m.ok THEN Raise("SegmentationError")
        ELSE [DVectorInit(self.zoning, other.seg, TfArg(chosen.tf),
                          FromKeys(SegmentNames(other.seg), SplitData(self, other, m.map)),
                          VPy(0))
              EXCEPT !.warned = chosen.warned]

SplitSegmentationLike(self, other) == SplitWith(self, other, SegSplit(self.seg, other.seg))

\* self.split_segmentation_like(other)
CallSplitSegmentationLike ==
    /\ pc = "ready"
    /\ call' = [op |-> "split_segmentation_like", out_seg |-> b.seg, variant |-> FALSE]
    /\ res' = SplitSegmentationLike(a, b)
    /\ pc' = "done"
    /\ UNCHANGED <<args, chunks, outs, a, b>>

InitSplit ==
    /\ pc = "ready"
    /\ args = <<>>
    /\ chunks = <<>>
    /\ outs = <<>>
    /\ \E shape \in Shapes, seg \in {"c", "ab"} :
          a \in OperandsOf(shape, seg, 0..MaxVal, {NoTf, "AVG_WEEK"})
    /\ \/ \E shape \in Shapes, seg \in {"ab", "tp"} :
             b \in OperandsOf(shape, seg, 0..MaxVal, OperandTfs(seg))
       \/ b \in OperandsOf("np", "ab_tp", 0..MaxVal, {"AVG_WEEK"})
    /\ call = NoCall
    /\ res = NoRes

NextSplit == CallSplitSegmentationLike

SpecSplit == InitSplit /\ [][NextSplit]_vars

(***************************************************************************)
(* DVector.balance_at_segments                                             *)
(***************************************************************************)
\* DVector._zero_infill
ZeroInfill == Frac(1, ZeroInfillDenominator)

\* np.where(data <= 0, infill, data)
InfillZeros(v) ==
    [k |-> IF v.k = "arr" THEN "arr" ELSE "np",
     x |-> [i \in DOMAIN v.x |-> IF v.x[i] <= 0 THEN ZeroInfill ELSE Float(v.x[i])]]

\* data * factor for a value of floats
Scaled(v, factor) == [k |-> v.k, x |-> [i \in DOMAIN v.x |-> FMul(v.x[i], factor)]]

\* np.sum of a list of values of floats
FSumList(lst) == FSum([i \in DOMAIN lst |-> FSum(lst[i].x)])

\* get_grouped_weekday_segments and get_grouped_weekend_segments: lists of
\* the groups of segments that differ in the time period only
GroupedWeekSegments(seg) ==
    CASE seg = "tp" -> Mapping(seg, <<(<< <<"tp1">> >>), (<< <<"tp5">> >>)>>)
      [] seg = "ab_tp" -> Mapping(seg, <<(<< <<"A_tp1">>, <<"B_tp1">> >>),
                                         (<< <<"A_tp5">>, <<"B_tp5">> >>)>>)
      [] OTHER -> NoMapping

\* (mutant) the segmentations are taken to match
SegmentationsMatch_Always(self, other) == TRUE

\* self.segmentation.name == other.segmentation.name
SegmentationsMatch(self, other) == self.seg = other.seg

\* The default mode: every segment is balanced to the sum of other's segment
BalanceData(self, other) ==
    [segment \in SegmentNames(self.seg) |->
        LET self_data == InfillZeros(self.data[segment])
            other_data == InfillZeros(other.data[segment])
        IN  Scaled(self_data, FDiv(FSum(other_data.x), FSum(self_data.x)))]

\* The weekday and weekend mode: every group is balanced to the sum of other's
\* group
BalanceGroupedData(self, other, week_segs) ==
    LET groups == UNION {Range(week_segs[i]) : i \in DOMAIN week_segs}
        GroupOf(segment) == CHOOSE g \in groups : segment \in Range(g)
        SelfLst(g) == [i \in DOMAIN g |-> InfillZeros(self.data[g[i]])]
        OtherLst(g) == [i \in DOMAIN g |-> InfillZeros(other.data[g[i]])]
    IN  [segment \in UNION {Range(g) : g \in groups} |->
            Scaled(InfillZeros(self.data[segment]),
                   FDiv(FSumList(OtherLst(GroupOf(segment))),
                        FSumList(SelfLst(GroupOf(segment)))))]

\* balance_at_segments for the answer week_segs of the two calls
\* get_grouped_weekday_segments and get_grouped_weekend_segments
BalanceWith(self, other, split_weekday_weekend, week_segs) ==
    IF ~SegmentationsMatch(self, other) THEN Raise("ValueError")
    ELSE IF split_weekday_weekend /\ ~week_segs.ok THEN Raise("SegmentationError")
    ELSE IF \E segment \in SegmentNames(self.seg) : segment \notin DOMAIN other.data
    THEN Raise("KeyError")
    ELSE DVectorInit(self.zoning, other.seg, TimeFormatProperty(self.tf),
                     FromKeys(SegmentNames(self.seg),
                              IF split_weekday_weekend
                              THEN BalanceGroupedData(self, other, week_segs.map)
                              ELSE BalanceData(self, other)),
                     VPy(0))

BalanceAtSegments(self, other, split_weekday_weekend) ==
    BalanceWith(self, other, split_weekday_weekend, GroupedWeekSegments(self.seg))

\* self.balance_at_segments(other, split_weekday_weekend)
CallBalanceAtSegments ==
    /\ pc = "ready"
    /\ \E split_weekday_weekend \in BOOLEAN :
          /\ call' = [op |-> "balance_at_segments", out_seg |-> "",
                      variant |-> split_weekday_weekend]
          /\ res' = BalanceAtSegments(a, b, split_weekday_weekend)
    /\ pc' = "done"
    /\ UNCHANGED <<args, chunks, outs, a, b>>

\* The values of self are negative, zero and positive, as are those of other
InitBalance ==
    /\ pc = "ready"
    /\ args = <<>>
    /\ chunks = <<>>
    /\ outs = <<>>
    /\ \E shape \in {"py", "zA"}, seg \in {"ab", "tp"} :
          a \in OperandsOf(shape, seg, {-1, 0, 1},
                          IF seg = "tp" THEN {"AVG_WEEK"} ELSE {NoTf})
    /\ \E shape \in {"np", "zA"}, seg \in {"ab", "tp"} :
          b \in OperandsOf(shape, seg, (-1)..MaxVal,
                          IF seg = "tp" THEN {"AVG_DAY"} ELSE {NoTf})
    /\ call = NoCall
    /\ res = NoRes

NextBalance == CallBalanceAtSegments

SpecBalance == InitBalance /\ [][NextBalance]_vars

(***************************************************************************)
(* TimeFormat: the conversion factors of every time period.                *)
(***************************************************************************)
\* TimeFormat.get_time_periods
TimePeriods == 1..6

WeekToDayFactors == [tp \in TimePeriods |-> IF tp <= 4 THEN Frac(2, 10) ELSE Float(1)]

DayToHourFactors ==
    [tp \in TimePeriods |->
        CASE tp = 1 -> Frac(1, 3)
          [] tp = 2 -> Frac(1, 6)
          [] tp = 3 -> Frac(1, 3)
          [] tp = 4 -> Frac(1, 12)
          [] tp = 5 -> Frac(1, 24)
          [] tp = 6 -> Frac(1, 24)]

\* {k: 1 / v for k, v in factors.items()}
Reciprocals(factors) == [k \in DOMAIN factors |-> FDiv(Float(1), factors[k])]

HourToDayFactors == Reciprocals(DayToHourFactors)

\* (mutant) the factors of week to day are returned for day to week
DayToWeekFactors_NotInverted == WeekToDayFactors

DayToWeekFactors == Reciprocals(WeekToDayFactors)

\* utils.general.combine_dict_list with operator.mul: the product key by key
CombineDictListMul(d1, d2) ==
    [k \in (DOMAIN d1) \cap (DOMAIN d2) |-> FMul(d1[k], d2[k])]

\* (mutant) the factors of day to hour alone
WeekToHourFactors_DayToHourOnly == DayToHourFactors

WeekToHourFactors == CombineDictListMul(WeekToDayFactors, DayToHourFactors)

HourToWeekFactors == CombineDictListMul(HourToDayFactors, DayToWeekFactors)

\* TimeFormat.get_conversion_factors: the factors, or the error raised
GetConversionFactors(self, to_time_format) ==
    IF to_time_format = self THEN Fail("ValueError")
    ELSE CASE self = "AVG_WEEK" /\ to_time_format = "AVG_DAY" -> Data(WeekToDayFactors)
           [] self = "AVG_WEEK" /\ to_time_format = "AVG_HOUR" -> Data(WeekToHourFactors)
           [] self = "AVG_DAY" /\ to_time_format = "AVG_WEEK" -> Data(DayToWeekFactors)
           [] self = "AVG_DAY" /\ to_time_format = "AVG_HOUR" -> Data(DayToHourFactors)
           [] self = "AVG_HOUR" /\ to_time_format = "AVG_WEEK" -> Data(HourToWeekFactors)
           [] self = "AVG_HOUR" /\ to_time_format = "AVG_DAY" -> Data(HourToDayFactors)
           [] OTHER -> Fail("NormitsDemandError")

(***************************************************************************)
(* DVector.copy and DVector.convert_time_format                            *)
(***************************************************************************)
\* get_time_period_groups: time period -> the segments of that time period
TimePeriodGroups(seg) ==
    CASE seg = "tp" -> [tp \in {1, 5} |-> IF tp = 1 THEN <<"tp1">> ELSE <<"tp5">>]
      [] seg = "ab_tp" -> [tp \in {1, 5} |-> IF tp = 1 THEN <<"A_tp1", "B_tp1">>
                                                         ELSE <<"A_tp5", "B_tp5">>]
      [] seg = "tp7" -> [tp \in {1, 7} |-> IF tp = 1 THEN <<"tp1">> ELSE <<"tp7">>]
      [] OTHER -> <<>>

\* (mutant) the copy is built without the time format
Copy_DropTimeFormat(self) == DVectorInit(self.zoning, self.seg, TfNone, self.data, VPy(0))

Copy(self) == DVectorInit(self.zoning, self.seg, TfArg(self.tf), self.data, VPy(0))

ConvertData(self, conversion_factors, tp_groups) ==
    LET TpOf(seg) == CHOOSE tp \in DOMAIN tp_groups : seg \in Range(tp_groups[tp])
    IN  [seg \in UNION {Range(tp_groups[tp]) : tp \in DOMAIN tp_groups} |->
            Scaled(self.data[seg], conversion_factors[TpOf(seg)])]

\* convert_time_format for the answer tp_groups of get_time_period_groups
ConvertWith(self, new_time_format, tp_groups) ==
    LET new_tf == ValidateTimeFormat(self.seg, new_time_format)
        conversion_factors == GetConversionFactors(self.tf, new_tf)
    IN  IF new_tf = "ValueError" THEN Raise("ValueError")
        ELSE IF self.tf = NoTf THEN Raise("ValueError")
        ELSE IF new_tf = NoTf THEN Raise("ValueError")
        ELSE IF ~HasTimePeriodSegments(self.seg) THEN Raise("ValueError")
        ELSE IF self.tf = new_tf THEN Copy(self)
        ELSE IF conversion_factors.err # "" THEN Raise(conversion_factors.err)
        ELSE IF (DOMAIN tp_groups) \ (DOMAIN conversion_factors.data) # {}
        THEN Raise("SegmentationError")
        ELSE DVectorInit(self.zoning, self.seg, TfEnum(new_tf),
                         FromKeys(DOMAIN self.data,
                                  ConvertData(self, conversion_factors.data, tp_groups)),
                         VPy(0))

ConvertTimeFormat(self, new_time_format) ==
    ConvertWith(self, new_time_format, TimePeriodGroups(self.seg))

\* A vector whose values are floats
WithFloats(v) ==
    [v EXCEPT !.data = [n \in DOMAIN v.data |-> [k |-> v.data[n].k, x |-> Floats(v.data[n])]]]

\* The time formats that are asked for: the members and one string
ConvertTargets == {TfEnum(tf) : tf \in TimeFormats} \cup {TfStr(" Avg_Day ")}

\* b.convert_time_format(new_time_format), b being the vector that the calls
\* made so far have led to; args.path lists the time formats asked for
CallConvertTimeFormat ==
    /\ pc \in {"ready", "done"}
    /\ Len(args.path) < MaxConversions
    /\ \E new_time_format \in ConvertTargets :
          /\ res' = ConvertTimeFormat(b, new_time_format)
          /\ args' = [path |-> Append(args.path, new_time_format)]
    /\ b' = IF IsVec(res') THEN res' ELSE b
    /\ call' = [op |-> "convert_time_format", out_seg |-> "", variant |-> FALSE]
    /\ pc' = "done"
    /\ UNCHANGED <<chunks, outs, a>>

InitTime ==
    /\ pc = "ready"
    /\ args = [path |-> <<>>]
    /\ chunks = <<>>
    /\ outs = <<>>
    /\ \/ \E shape \in {"py", "zA"} :
             a \in {WithFloats(v) : v \in OperandsOf(shape, "tp", 0..MaxVal, TimeFormats)}
       \/ a \in {WithFloats(v) : v \in OperandsOf("np", "ab", {1}, {NoTf, "AVG_WEEK"})}
    /\ b = a
    /\ call = NoCall
    /\ res = NoRes

NextTime == CallConvertTimeFormat

SpecTime == InitTime /\ [][NextTime]_vars

\* The time formats asked for in one call: the members, None and two strings
CheckedTargets == ConvertTargets \cup {TfNone, TfStr("weekly")}

\* a.convert_time_format(new_time_format), one call
CallConvertTimeFormatOnce ==
    /\ pc = "ready"
    /\ \E new_time_format \in CheckedTargets :
          /\ res' = ConvertTimeFormat(a, new_time_format)
          /\ args' = [path |-> <<new_time_format>>]
    /\ call' = [op |-> "convert_time_format", out_seg |-> "", variant |-> FALSE]
    /\ pc' = "done"
    /\ UNCHANGED <<chunks, outs, a, b>>

\* Vectors with and without a time format, with and without time period
\* segments, and with the time period 7 that no factor is known for
InitTimeOnce ==
    /\ pc = "ready"
    /\ args = [path |-> <<>>]
    /\ chunks = <<>>
    /\ outs = <<>>
    /\ \/ \E shape \in {"py", "zA"} : \E seg \in {"tp", "tp7"} :
             a \in {WithFloats(v) : v \in OperandsOf(shape, seg, 0..MaxVal, TimeFormats)}
       \/ a \in {WithFloats(v) : v \in OperandsOf("np", "ab", 0..MaxVal, {NoTf, "AVG_WEEK"})}
    /\ b = a
    /\ call = NoCall
    /\ res = NoRes

NextTimeOnce == CallConvertTimeFormatOnce

SpecTimeOnce == InitTimeOnce /\ [][NextTimeOnce]_vars

(***************************************************************************)
(* DVector.subset and DVector.remove_zoning                                *)
(***************************************************************************)
\* self.segmentation.subset(out_segmentation): the segments that are kept
SegSubset(s, out) ==
    IF s = "ab" /\ out = "a" THEN [ok |-> TRUE, list |-> <<"A">>]
    ELSE [ok |-> FALSE, list |-> <<>>]

Subset(self, out_segmentation) ==
    LET subset_list == SegSubset(self.seg, out_segmentation)
    IN  IF ~subset_list.ok THEN Raise("SegmentationError")
        ELSE DVectorInit(self.zoning, out_segmentation, TimeFormatProperty(self.tf),
                         [segment \in Range(subset_list.list) |-> self.data[segment]],
                         VPy(0))

\* fn(x) for fn = np.sum; floats: the numbers of x are written as fractions
NpSum(x, floats) == [k |-> "np", x |-> <<IF floats THEN FSum(x.x) ELSE SumSeq(x.x)>>]

RemoveZoning(self, fn, floats) ==
    IF fn # "np.sum" THEN Raise("ValueError")
    ELSE DVectorInit(NoZoning, self.seg, TimeFormatProperty(self.tf),
                     [key \in DOMAIN self.data |-> NpSum(self.data[key], floats)], VPy(0))

(***************************************************************************)
(* Objects.  In the specification SpecObjects, a is the sequence of the    *)
(* DVector instances that exist and b the sequence of the dictionaries     *)
(* that exist: the instance a[i] holds the dictionary b[a[i].data] as its  *)
(* _data, and two instances may hold the same dictionary.  The field       *)
(* floats of an instance tells how the model writes its numbers: as        *)
(* fractions, after an operator that divides, or as integers.              *)
(***************************************************************************)
Instance(v, data, floats) ==
    [zoning |-> v.zoning, seg |-> v.seg, tf |-> v.tf, data |-> data, floats |-> floats]

\* The vector that the instance i is, with the dictionary it holds
At(i) == Vec(a[i].zoning, a[i].seg, a[i].tf, b[a[i].data])

\* (mutant) every operator builds its result in the dictionary of self
ImportData_OfSelf(op, self_data, new_dict) == self_data

\* The dictionary that is passed to the constructor as import_data: copy
\* passes self._data, the other operators a dictionary they have created
ImportData(op, self_data, new_dict) == IF op = "copy" THEN self_data ELSE new_dict

\* self.multiply_and_aggregate(other, out_segmentation), the chunks taken in
\* the order they were made in
MultiplyAndAggregate(self, other, out_segmentation) ==
    LET m == SegMultiply(self.seg, other.seg)
        agg == IF m.ok THEN SegAggregate(m.seg, out_segmentation) ELSE NoMapping
    IN  IF ~m.ok \/ ~agg.ok THEN Raise("SegmentationError")
        ELSE MulAggResult(self, other, out_segmentation,
                          MulAggOuts(MulAggKwargs(self, other, m.map, agg.map, 0)))

\* self.translate_zoning(new_zoning), the chunks taken in the order they were
\* made in
TranslateZoningSerial(self, new_zoning, translation) ==
    IF self.zoning = NoZoning THEN Raise("AttributeError")
    ELSE TranslateResult(self, new_zoning,
                         TranslateOuts(TranslateKwargs(self, translation, 0)))

\* The operator op, called on the instance self (and other), returns or
\* raises r: when it returns, the constructor has stored the dictionary
\* import_data, filled with the data of r, in a new instance.
Returns(op, self, other, r, floats) ==
    LET import_data == ImportData(op, a[self].data, Len(b) + 1)
    IN  /\ pc \in {"ready", "done"}
        /\ args.calls < MaxCalls
        /\ res' = r
        /\ call' = [op |-> op, out_seg |-> "", variant |-> FALSE]
        /\ args' = [calls |-> args.calls + 1, self |-> self, other |-> other]
        /\ pc' = "done"
        /\ IF IsVec(r)
           THEN /\ a' = Append(a, Instance(r, import_data, floats))
                /\ b' = IF import_data \in DOMAIN b THEN [b EXCEPT ![import_data] = r.data]
                        ELSE Append(b, r.data)
           ELSE UNCHANGED <<a, b>>
        /\ UNCHANGED <<chunks, outs>>

ObjMul ==
    \E self \in DOMAIN a, other \in DOMAIN a :
        /\ ~a[self].floats /\ ~a[other].floats
        /\ Returns("mul", self, other, Mul(At(self), At(other)), FALSE)

ObjAggregate ==
    \E self \in DOMAIN a :
        /\ ~a[self].floats
        /\ Returns("aggregate", self, self, Aggregate(At(self), "c", FALSE), FALSE)

ObjMultiplyAndAggregate ==
    \E self \in DOMAIN a, other \in DOMAIN a :
        /\ ~a[self].floats /\ ~a[other].floats
        /\ Returns("multiply_and_aggregate", self, other,
                   MultiplyAndAggregate(At(self), At(other), "c"), FALSE)

ObjTranslateZoning ==
    \E self \in DOMAIN a :
        \E translation \in ZoningTranslate(IF a[self].zoning = NoZoning THEN "zB"
                                           ELSE a[self].zoning, "zB") :
            /\ ~a[self].floats
            /\ Returns("translate_zoning", self, self,
                       TranslateZoningSerial(At(self), "zB", translation), FALSE)

ObjExpandSegmentation ==
    \E self \in DOMAIN a, other \in DOMAIN a :
        /\ ~a[self].floats /\ ~a[other].floats
        /\ Returns("expand_segmentation", self, other,
                   ExpandSegmentation(At(self), At(other)), FALSE)

ObjSubset ==
    \E self \in DOMAIN a :
        Returns("subset", self, self, Subset(At(self), "a"), a[self].floats)

ObjSplitSegmentationLike ==
    \E self \in DOMAIN a, other \in DOMAIN a :
        /\ ~a[self].floats /\ ~a[other].floats
        /\ Returns("split_segmentation_like", self, other,
                   SplitSegmentationLike(At(self), At(other)), TRUE)

ObjBalanceAtSegments ==
    \E self \in DOMAIN a, other \in DOMAIN a, split_weekday_weekend \in BOOLEAN :
        /\ ~a[self].floats /\ ~a[other].floats
        /\ Returns("balance_at_segments", self, other,
                   BalanceAtSegments(At(self), At(other), split_weekday_weekend), TRUE)

ObjRemoveZoning ==
    \E self \in DOMAIN a, fn \in {"np.sum", "None"} :
        Returns("remove_zoning", self, self,
                RemoveZoning(At(self), fn, a[self].floats), a[self].floats)

ObjConvertTimeFormat ==
    \E self \in DOMAIN a, new_time_format \in {TfEnum("AVG_DAY"), TfEnum("AVG_WEEK")} :
        /\ a[self].floats
        /\ Returns("convert_time_format", self, self,
                   ConvertTimeFormat(At(self), new_time_format), TRUE)

ObjCopy ==
    \E self \in DOMAIN a :
        Returns("copy", self, self, Copy(At(self)), a[self].floats)

\* self.zoning_system = zoning: the setter raises
ObjSetZoningSystem ==
    \E self \in DOMAIN a, zoning \in Zonings \cup {NoZoning} :
        /\ pc \in {"ready", "done"}
        /\ args.calls < MaxCalls
        /\ res' = Raise("DVectorError")
        /\ call' = [op |-> "zoning_system.setter", out_seg |-> zoning, variant |-> FALSE]
        /\ args' = [calls |-> args.calls + 1, self |-> self, other |-> self]
        /\ pc' = "done"
        /\ UNCHANGED <<chunks, outs, a, b>>

\* self.segmentation = seg: the setter raises
ObjSetSegmentation ==
    \E self \in DOMAIN a, seg \in Segmentations :
        /\ pc \in {"ready", "done"}
        /\ args.calls < MaxCalls
        /\ res' = Raise("DVectorError")
        /\ call' = [op |-> "segmentation.setter", out_seg |-> seg, variant |-> FALSE]
        /\ args' = [calls |-> args.calls + 1, self |-> self, other |-> self]
        /\ pc' = "done"
        /\ UNCHANGED <<chunks, outs, a, b>>

\* Three instances that the constructor has returned, each with a dictionary
\* of its own: a weekly zoned vector of the segmentation tp, a zoneless
\* vector of the segmentation c and a zoneless one of the segmentation ab;
\* the first vector holds a zero in one zone of the segment tp1
InitObjects ==
    /\ pc = "ready"
    /\ args = [calls |-> 0, self |-> 0, other |-> 0]
    /\ chunks = <<>>
    /\ outs = <<>>
    /\ a = <<Instance(Vec("zA", "tp", "AVG_WEEK", NoData), 1, FALSE),
             Instance(Vec(NoZoning, "c", NoTf, NoData), 2, FALSE),
             Instance(Vec(NoZoning, "ab", NoTf, NoData), 3, FALSE)>>
    /\ \E zero \in 1..NZones("zA") :
          b = << [segment \in SegmentNames("tp") |->
                    IF segment = "tp1"
                    THEN VArr([i \in 1..NZones("zA") |-> IF i = zero THEN 0 ELSE 1])
                    ELSE VArr(<<1, 1>>)],
                 [segment \in SegmentNames("c") |-> VNp(1)],
                 [segment \in SegmentNames("ab") |->
                    IF segment = "A" THEN VNp(1) ELSE VNp(0)] >>
    /\ call = NoCall
    /\ res = NoRes

NextObjects ==
    \/ ObjMul
    \/ ObjAggregate
    \/ ObjMultiplyAndAggregate
    \/ ObjTranslateZoning
    \/ ObjExpandSegmentation
    \/ ObjSubset
    \/ ObjSplitSegmentationLike
    \/ ObjBalanceAtSegments
    \/ ObjRemoveZoning
    \/ ObjConvertTimeFormat
    \/ ObjCopy
    \/ ObjSetZoningSystem
    \/ ObjSetSegmentation

SpecObjects == InitObjects /\ [][NextObjects]_vars

\* ---------------------------------------------------------------------------
\* The three operators that fill dict.fromkeys(...) from a mapping of the
\* segmentation, for every mapping the segmentation may answer with: the
\* mapping of the oracle, or one that leaves some of its entries out.
\* ---------------------------------------------------------------------------

\* self.segmentation.split(other.segmentation): entries left out, lists cut
SplitAnswers(s1, s2) ==
    LET m == SegSplit(s1, s2)
        Cut(lst, cut) == IF cut /\ Len(lst) > 1 THEN SubSeq(lst, 1, Len(lst) - 1) ELSE lst
    IN  IF ~m.ok THEN {m}
        ELSE {[m EXCEPT !.map = [n \in D |-> Cut(m.map[n], cut)]] :
                 D \in SUBSET DOMAIN m.map, cut \in BOOLEAN}

\* get_grouped_weekday_segments() and get_grouped_weekend_segments(): either
\* list of groups may be empty
WeekAnswers(seg) ==
    LET m == GroupedWeekSegments(seg)
    IN  IF ~m.ok THEN {m}
        ELSE {[m EXCEPT !.map = [i \in DOMAIN m.map |-> IF i \in D THEN m.map[i] ELSE <<>>]] :
                 D \in SUBSET DOMAIN m.map}

\* get_time_period_groups(): time periods left out
TpAnswers(seg) == {Restrict(TimePeriodGroups(seg), D) : D \in SUBSET DOMAIN TimePeriodGroups(seg)}

\* The segments that a mapping name -> list of segments assigns
Assigned(map) == UNION {Range(map[n]) : n \in DOMAIN map}

Answered(op, variant, covered, r) ==
    /\ pc = "ready"
    /\ call' = [op |-> op, out_seg |-> "", variant |-> variant]
    /\ args' = [covered |-> covered]
    /\ res' = r
    /\ pc' = "done"
    /\ UNCHANGED <<chunks, outs, a, b>>

AnsweredSplitSegmentationLike ==
    \E m \in SplitAnswers(a.seg, b.seg) :
        Answered("split_segmentation_like", FALSE, Assigned(m.map), SplitWith(a, b, m))

AnsweredBalanceAtSegments ==
    \E split_weekday_weekend \in BOOLEAN : \E week_segs \in WeekAnswers(a.seg) :
        Answered("balance_at_segments", split_weekday_weekend,
                 IF split_weekday_weekend
                 THEN UNION {Assigned(week_segs.map[i]) : i \in DOMAIN week_segs.map}
                 ELSE SegmentNames(a.seg),
                 BalanceWith(a, b, split_weekday_weekend, week_segs))

AnsweredConvertTimeFormat ==
    \E new_time_format \in ConvertTargets : \E tp_groups \in TpAnswers(a.seg) :
        Answered("convert_time_format", FALSE, Assigned(tp_groups),
                 ConvertWith(WithFloats(a), new_time_format, tp_groups))

\* self has segmentation c (split into tp) or tp (balanced, converted)
InitAnswered ==
    /\ pc = "ready"
    /\ args = [covered |-> {}]
    /\ chunks = <<>>
    /\ outs = <<>>
    /\ \E shape \in {"py", "zA"} :
          \/ a \in OperandsOf(shape, "c", 0..MaxVal, {NoTf})
          \/ a \in OperandsOf(shape, "tp", 0..MaxVal, {"AVG_WEEK"})
    /\ \E shape \in {"np", "zA"} : b \in OperandsOf(shape, "tp", 0..MaxVal, {"AVG_WEEK"})
    /\ call = NoCall
    /\ res = NoRes

NextAnswered ==
    \/ AnsweredSplitSegmentationLike
    \/ AnsweredBalanceAtSegments
    \/ AnsweredConvertTimeFormat

SpecAnswered == InitAnswered /\ [][NextAnswered]_vars

(***************************************************************************)
(* Properties of construction (specification SpecCtor).                    *)
(***************************************************************************)
Done == pc = "done"

\* The time_format argument that is stored as given
GoodTf(tf) == tf \in {TfNone, TfEnum("AVG_WEEK"), TfStr(" Avg_Day ")}

StoredTf(tf) ==
    CASE tf = TfNone -> NoTf
      [] tf = TfEnum("AVG_WEEK") -> "AVG_WEEK"
      [] tf = TfStr(" Avg_Day ") -> "AVG_DAY"
      [] OTHER -> "?"

\* The time_format argument fits the segmentation
TfFits == GoodTf(args.tf) /\ (HasTimePeriodSegments(args.seg) => args.tf # TfNone)

InputNames ==
    IF args.src = "dict" THEN DOMAIN args.dict ELSE {r.seg : r \in Range(args.rows)}

RowsAt(sg, z) == {i \in DOMAIN args.rows : args.rows[i].seg = sg /\ args.rows[i].zone = z}

TableZones == IF args.zoning = NoZoning THEN {0} ELSE Range(UniqueZones(args.zoning))

HasDuplicateRows == \E i, j \in DOMAIN args.rows :
    i # j /\ args.rows[i].seg = args.rows[j].seg /\ args.rows[i].zone = args.rows[j].zone

\* A table of rows of the zoning's zones and the segmentation's segments, no
\* (zone, segment) combination twice
ValidTable ==
    /\ args.src = "df"
    /\ InputNames \subseteq SegmentNames(args.seg)
    /\ \A r \in Range(args.rows) : r.zone \in TableZones
    /\ ~HasDuplicateRows

\* C1: for every segmentation, zoning, infill and input (a dictionary or a
\* table) that names only valid segments, the empty input included,
\* construction succeeds and the keys of the data are exactly the segment
\* names of the segmentation.
C1_InfillCompleteness ==
    (/\ Done
     /\ TfFits
     /\ args.src = "dict" => InputNames \subseteq SegmentNames(args.seg)
     /\ args.src = "df" => ValidTable)
    => (IsVec(res) /\ DOMAIN res.data = SegmentNames(args.seg))

\* C2: construction from a dictionary with at least one key that is not a
\* segment name of the segmentation raises SegmentationError, whatever the
\* other keys and values are.
C2_ExtraKeyIsSegmentationError ==
    (/\ Done
     /\ TfFits
     /\ args.src = "dict"
     /\ ~(InputNames \subseteq SegmentNames(args.seg)))
    => res = Raise("SegmentationError")

\* C4 as stated: construction raises when the segmentation has a time period
\* segment and no time format is given, and also when a time format is given
\* for a segmentation without a time period segment.
C4_TimeFormatIff ==
    (/\ Done
     /\ HasTimePeriodSegments(args.seg) <=> args.tf = TfNone)
    => IsErr(res)

\* C4 amended: construction raises ValueError when the segmentation has a
\* time period segment and no time format is given; for a segmentation without
\* one the time format is optional: given or not, a valid time format never
\* makes construction raise ValueError, and the vector stores it.
C4_TimeFormatOptionalWithoutTp ==
    Done =>
        /\ (HasTimePeriodSegments(args.seg) /\ args.tf = TfNone)
              => res = Raise("ValueError")
        /\ (~HasTimePeriodSegments(args.seg) /\ GoodTf(args.tf) /\ args.src = "dict")
              => res # Raise("ValueError")
        /\ (IsVec(res) /\ args.src = "dict")
              => (TfFits /\ res.tf = StoredTf(args.tf))

C4_Witness ==
    /\ Done
    /\ ~HasTimePeriodSegments(args.seg)
    /\ args.tf = TfEnum("AVG_WEEK")
    /\ IsVec(res)
    /\ res.tf = "AVG_WEEK"

\* What the vector is to hold for segment sg at the i-th zone (the value of a
\* zoneless vector at i = 1): the table's value, 0 for a zone that a segment of
\* the table lacks, the infill for a segment that the table lacks.
TableValue(sg, i) ==
    LET z == IF args.zoning = NoZoning THEN 0 ELSE UniqueZones(args.zoning)[i]
    IN  IF RowsAt(sg, z) # {} THEN args.rows[CHOOSE r \in RowsAt(sg, z) : TRUE].val
        ELSE IF sg \in InputNames THEN 0
        ELSE args.infill.x[1]

TableSum == SumSeq([i \in 1..Len(args.rows) |-> args.rows[i].val])

C6_DuplicateRowsRejected ==
    (/\ Done
     /\ args.src = "df"
     /\ HasDuplicateRows)
    => IsErr(res)

(***************************************************************************)
(* Properties of the operators (specification SpecOps).                    *)
(***************************************************************************)
\* The values of a vector have the shape its zoning asks for
WellShaped(v) ==
    \A n \in DOMAIN v.data :
        IF v.zoning = NoZoning THEN IsScalar(v.data[n])
        ELSE v.data[n].k = "arr" /\ Len(v.data[n].x) = NZones(v.zoning)

\* C3: in every vector that the constructor or an operator returns, the
\* value of each segment is an array of the length of the zoning's zone count
\* when the zoning is set, and a scalar when it is not.
C3_ValuesHaveZoningShape ==
    (Done /\ IsVec(res)) => WellShaped(res)

Called(op) == Done /\ call.op = op

ZoningsCompatible ==
    a.zoning = b.zoning \/ a.zoning = NoZoning \/ b.zoning = NoZoning

\* C7: the zoning of a product: identical zonings give that zoning, one
\* zoneless operand gives the zoning of the other, two zoneless operands give a
\* zoneless product, and two zonings that differ raise ZoningError.
C7_MulZoning ==
    Called("mul") =>
        /\ ~ZoningsCompatible <=> res = Raise("ZoningError")
        /\ IsVec(res) =>
            /\ a.zoning = b.zoning => res.zoning = a.zoning
            /\ (a.zoning = NoZoning /\ b.zoning # NoZoning) => res.zoning = b.zoning
            /\ (a.zoning # NoZoning /\ b.zoning = NoZoning) => res.zoning = a.zoning
            /\ (a.zoning = NoZoning /\ b.zoning = NoZoning) => res.zoning = NoZoning

C7_Witness ==
    /\ Called("mul")
    /\ IsVec(res)
    /\ a.zoning = NoZoning
    /\ b.zoning = "zA"
    /\ res.zoning = "zA"

\* The number of a value at the i-th zone; a scalar is the same at every zone
ValueAt(v, i) == IF IsScalar(v) THEN v.x[1] ELSE v.x[i]

ZoneIndices(zoning) == IF zoning = NoZoning THEN {1} ELSE 1..NZones(zoning)

\* C8: the product has the segmentation that the oracle returns, and for
\* every name of the result that the oracle maps to (left, right) the value is
\* a.data[left] * b.data[right], zone by zone, a scalar multiplying every zone.
C8_MulValues ==
    (Called("mul") /\ IsVec(res)) =>
        LET m == SegMultiply(a.seg, b.seg)
        IN  /\ m.ok
            /\ res.seg = m.seg
            /\ DOMAIN res.data = DOMAIN m.map
            /\ \A n \in DOMAIN m.map :
                  /\ Len(res.data[n].x) = Cardinality(ZoneIndices(res.zoning))
                  /\ \A i \in ZoneIndices(res.zoning) :
                        res.data[n].x[i] = ValueAt(a.data[m.map[n][1]], i)
                                           * ValueAt(b.data[m.map[n][2]], i)

\* A zoned vector times a zoneless rate, with a product that is not zero
C8_Witness ==
    /\ Called("mul")
    /\ IsVec(res)
    /\ a.zoning = "zA"
    /\ b.zoning = NoZoning
    /\ a.seg = "ab"
    /\ b.seg = "c"
    /\ \A n \in DOMAIN res.data : \A i \in 1..2 : res.data[n].x[i] > 0

\* C9: the time format of a product is that of a when a has one, else that of
\* b, else none; when both are set and differ the multiplication still returns
\* its result, with the time format of a, and gives a warning.
C9_MulTimeFormat ==
    Called("mul") =>
        /\ IsVec(res) =>
            /\ res.tf = (IF a.tf # NoTf THEN a.tf ELSE b.tf)
            /\ res.warned <=> (a.tf # NoTf /\ b.tf # NoTf /\ a.tf # b.tf)
        /\ (ZoningsCompatible /\ SegMultiply(a.seg, b.seg).ok) => IsVec(res)

C9_Witness ==
    /\ Called("mul")
    /\ IsVec(res)
    /\ a.tf = "AVG_WEEK"
    /\ b.tf = "AVG_DAY"
    /\ res.tf = "AVG_WEEK"
    /\ res.warned

\* C10: for every vector and every segmentation that the oracle has an
\* aggregation mapping into (the ordinary one or that of a compound segment),
\* the total of the aggregated vector is the total of the vector.
C10_AggregateKeepsTotal ==
    (Called("aggregate") /\ IsVec(res)) =>
        /\ DVectorSum(res).err = ""
        /\ DVectorSum(a).err = ""
        /\ DVectorSum(res).val = DVectorSum(a).val
        /\ Total(res.data) = Total(a.data)

C10_Witness ==
    /\ Called("aggregate")
    /\ IsVec(res)
    /\ a.seg = "ab"
    /\ res.seg = "c"
    /\ a.zoning = "zA"
    /\ \A n \in DOMAIN a.data : \A i \in 1..2 : a.data[n].x[i] > 0
    /\ Total(res.data) = Total(a.data)

C10_WitnessCompound ==
    /\ C10_Witness
    /\ call.variant

\* The mapping that the oracle gives the aggregate call that was made
CalledAggregation ==
    IF call.variant THEN SegSplitTfntt(a.seg, call.out_seg)
    ELSE SegAggregate(a.seg, call.out_seg)

\* C11: aggregate returns a vector of the target segmentation and of the
\* zoning of the input, and for every output name of the oracle's mapping the
\* value at each zone is the sum, over the input names that the mapping lists,
\* of the input's values at that zone; it returns for every input whose values
\* are numpy values.
C11_AggregateValues ==
    Called("aggregate") =>
        LET m == CalledAggregation
        IN  /\ (m.ok /\ \A n \in DOMAIN a.data : HasNumpyMethods(a.data[n])) => IsVec(res)
            /\ IsVec(res) =>
                /\ m.ok
                /\ res.seg = call.out_seg
                /\ res.zoning = a.zoning
                /\ DOMAIN res.data = DOMAIN m.map
                /\ \A n \in DOMAIN m.map :
                      /\ Len(res.data[n].x) = Cardinality(ZoneIndices(a.zoning))
                      /\ \A i \in ZoneIndices(a.zoning) :
                            res.data[n].x[i] =
                                SumSeq([j \in 1..Len(m.map[n]) |->
                                           ValueAt(a.data[m.map[n][j]], i)])

\* A = [1, 1] and B = [1, 0] aggregated into C = [2, 1]
C11_Witness ==
    /\ Called("aggregate")
    /\ IsVec(res)
    /\ a.zoning = "zA"
    /\ a.seg = "ab"
    /\ a.data["A"].x = <<1, 1>>
    /\ a.data["B"].x = <<1, 0>>
    /\ res.seg = "c"
    /\ res.data["C"].x = <<2, 1>>

(***************************************************************************)
(* Properties of multiply_and_aggregate (specification SpecMulAgg).        *)
(***************************************************************************)
\* (self * other).aggregate(out_segmentation)
MulThenAggregate ==
    LET product == Mul(a, b)
    IN  IF IsErr(product) THEN product ELSE Aggregate(product, call.out_seg, FALSE)

SameValues(v, w) ==
    /\ DOMAIN v.data = DOMAIN w.data
    /\ \A n \in DOMAIN v.data : v.data[n].x = w.data[n].x

\* C12: for all vectors a and b, every output segmentation for which the
\* oracle has the multiplication and the aggregation mapping, and every
\* process count, a.multiply_and_aggregate(b, out) holds for every output key
\* the per-zone values of (a * b).aggregate(out).
C12_MultiplyAndAggregateIsMulThenAggregate ==
    (Called("multiply_and_aggregate") /\ IsVec(res)) =>
        /\ IsVec(MulThenAggregate)
        /\ SameValues(res, MulThenAggregate)

\* The same for operands whose zonings are equal, or one of them not set
C12_SameValuesOnCompatibleZonings ==
    (Called("multiply_and_aggregate") /\ ZoningsCompatible) =>
        /\ IsVec(res) <=> IsVec(MulThenAggregate)
        /\ IsVec(res) => SameValues(res, MulThenAggregate)

(***************************************************************************)
(* Properties of translate_zoning (specification SpecZoning).              *)
(***************************************************************************)
\* to is what translate_zoning must return for the vector from, the zoning
\* new_zoning and the matrix translation
IsTranslation(from, to, new_zoning, translation) ==
    /\ IsVec(to)
    /\ to.zoning = new_zoning
    /\ to.seg = from.seg
    /\ to.tf = from.tf
    /\ DOMAIN to.data = DOMAIN from.data
    /\ \A n \in DOMAIN from.data :
          /\ Len(to.data[n].x) = NZones(new_zoning)
          /\ \A j \in 1..NZones(new_zoning) :
                to.data[n].x[j] =
                    SumSeq([i \in 1..NZones(from.zoning) |->
                               from.data[n].x[i] * translation[i][j]])

\* C13: translate_zoning returns a vector on the target zoning, of the same
\* segmentation and time format, whose value for every segment and target
\* zone j is the sum over the source zones i of old[i] * translation[i][j],
\* whatever the rows of the matrix sum to and however many chunks the
\* segments are cut into.
C13_TranslateValues ==
    /\ (Called("translate_zoning") /\ a.zoning # NoZoning)
          => IsTranslation(a, res, call.out_seg, args.first)
    /\ Called("translate_back") => IsTranslation(b, res, a.zoning, args.second)

\* Two chunks of segments and a matrix whose rows sum to 2
C13_Witness ==
    /\ Called("translate_zoning")
    /\ IsVec(res)
    /\ Len(chunks) = 2
    /\ args.first = <<(<<1, 1>>), (<<1, 1>>)>>
    /\ res.data[1].x = <<1, 1>>
    /\ res.data[BigSegments].x = <<1, 1>>

MatMul(m1, m2) ==
    [i \in 1..Len(m1) |-> [j \in 1..Len(m2[1]) |->
        SumSeq([k \in 1..Len(m2) |-> m1[i][k] * m2[k][j]])]]

IdentityMatrix(n) == [i \in 1..n |-> [j \in 1..n |-> IF i = j THEN 1 ELSE 0]]

IsInverse(m1, m2) ==
    /\ MatMul(m1, m2) = IdentityMatrix(Len(m1))
    /\ MatMul(m2, m1) = IdentityMatrix(Len(m2))

\* C14: a vector translated to a target zoning and back to its own zoning,
\* the second matrix being the inverse of the first (two identity matrices
\* included), has for every segment the total of the original vector.
C14_RoundTripTotals ==
    (Called("translate_back") /\ IsInverse(args.first, args.second)) =>
        /\ IsVec(res)
        /\ res.zoning = a.zoning
        /\ DOMAIN res.data = DOMAIN a.data
        /\ \A n \in DOMAIN a.data : SumSeq(res.data[n].x) = SumSeq(a.data[n].x)

\* Zone 1 and zone 2 exchanged and exchanged back
C14_Witness ==
    /\ Called("translate_back")
    /\ IsVec(res)
    /\ a.seg = "ab"
    /\ args.first = <<(<<0, 1>>), (<<1, 0>>)>>
    /\ args.second = args.first
    /\ a.data["A"].x = <<1, 0>>
    /\ b.data["A"].x = <<0, 1>>
    /\ res.data["A"].x = <<1, 0>>

(***************************************************************************)
(* Properties of expand_segmentation (specification SpecExpand).           *)
(***************************************************************************)
\* C15: expand_segmentation never returns a vector whose total is not close
\* to the total of self: every call either returns a vector whose total is
\* within the relative tolerance of self's total, or raises an error and
\* returns nothing.
C15_ExpandKeepsTotalOrRaises ==
    Called("expand_segmentation") =>
        /\ IsVec(res) \/ IsErr(res)
        /\ IsVec(res) =>
              RelTolDenominator * Abs(Total(res.data) - Total(a.data))
                  <= Max(Abs(Total(res.data)), Abs(Total(a.data)))
        /\ (/\ a.zoning = b.zoning
            /\ SegExpand(a.seg, b.seg).ok
            /\ ~HasTimePeriodSegments(b.seg)
            /\ \A n \in DOMAIN a.data : HasNumpyMethods(a.data[n])
            /\ Total(ExpandData(a, b, SegExpand(a.seg, b.seg).map)) # Total(a.data)
            /\ Total(a.data) < RelTolDenominator)
              => res = Raise("ValueError")

\* One call returns a vector of the total of self, one a vector whose total
\* differs within the tolerance, and one raises for a total that differs
C15_Witness ==
    /\ Called("expand_segmentation")
    /\ IsVec(res)
    /\ a.zoning = "zA"
    /\ Total(a.data) > 0
    /\ Total(res.data) = Total(a.data)

C15_WitnessWithinTolerance ==
    /\ Called("expand_segmentation")
    /\ IsVec(res)
    /\ Total(res.data) # Total(a.data)

C15_WitnessRaises ==
    /\ Called("expand_segmentation")
    /\ res = Raise("ValueError")
    /\ a.zoning = b.zoning
    /\ a.seg = "c"
    /\ b.seg = "ab"
    /\ Total(a.data) = 1

(***************************************************************************)
(* Properties of split_segmentation_like (specification SpecSplit).        *)
(***************************************************************************)
\* The zone-average of other[f] over the sum of the averages of the fine
\* segments of the group
Factor(group, i) ==
    FDiv(NpMean(b.data[group[i]]), FSum([j \in DOMAIN group |-> NpMean(b.data[group[j]])]))

\* What the claim says of the group of fine segments of the coarse segment c
SplitsGroup(c, group) ==
    /\ FSum([i \in DOMAIN group |-> Factor(group, i)]) = Float(1)
    /\ \A i \in DOMAIN group :
          /\ Len(res.data[group[i]].x) = Len(a.data[c].x)
          /\ \A z \in DOMAIN a.data[c].x :
                res.data[group[i]].x[z] = FMul(Float(a.data[c].x[z]), Factor(group, i))
    /\ \A z \in DOMAIN a.data[c].x :
          FSum([i \in DOMAIN group |-> res.data[group[i]].x[z]]) = Float(a.data[c].x[z])

SplitTotal == FSum([i \in 1..Len(SetToSeq(DOMAIN res.data)) |->
                      FSum(res.data[SetToSeq(DOMAIN res.data)[i]].x)])

\* C16: for every self and other, split_segmentation_like gives every fine
\* segment one factor (its zone-average in other over the sum of the averages
\* of its group), the factors of a group sum to 1, the result is self's value
\* of the coarse segment times the factor at every zone, the fine values of a
\* group sum to self's value at every zone, and the total is self's total.
C16_SplitLikeKeepsValues ==
    (Called("split_segmentation_like") /\ IsVec(res)) =>
        /\ \A c \in DOMAIN a.data : SplitsGroup(c, SegSplit(a.seg, b.seg).map[c])
        /\ SplitTotal = Float(Total(a.data))

\* The same for an other whose averages sum, in every group, to more than 0
C16_HoldsForPositiveGroups ==
    (/\ Called("split_segmentation_like")
     /\ IsVec(res)
     /\ \A c \in DOMAIN a.data :
           LET group == SegSplit(a.seg, b.seg).map[c]
           IN  FSum([j \in DOMAIN group |-> NpMean(b.data[group[j]])]).n > 0)
    => /\ \A c \in DOMAIN a.data : SplitsGroup(c, SegSplit(a.seg, b.seg).map[c])
       /\ SplitTotal = Float(Total(a.data))

(***************************************************************************)
(* Properties of balance_at_segments (specification SpecBalance).          *)
(***************************************************************************)
FAbs(p) == [n |-> Abs(p.n), d |-> p.d]

FLessEq(p, q) == p.n * q.d <= q.n * p.d

\* The sum over the zones of the result's segment is the sum over the zones
\* of other's segment, to the infill of every zone of other
BalancedTo(segment) ==
    /\ \A i \in DOMAIN res.data[segment].x : IsFinite(res.data[segment].x[i])
    /\ FLessEq(FAbs(FAdd(FSum(res.data[segment].x),
                         Float(-SumSeq(b.data[segment].x)))),
               Frac(Len(b.data[segment].x), ZeroInfillDenominator))

\* C17: for all vectors self and other of one segmentation, values that are
\* zero or negative included, balance_at_segments in its default mode returns
\* a vector in which the sum over the zones of every segment is the sum over
\* the zones of other's segment.
C17_BalancedToOther ==
    (Called("balance_at_segments") /\ ~call.variant /\ a.seg = b.seg) =>
        /\ IsVec(res)
        /\ \A segment \in SegmentNames(a.seg) : BalancedTo(segment)

\* The same for an other without negative values
C17_HoldsWithoutNegativeTargets ==
    (/\ Called("balance_at_segments")
     /\ ~call.variant
     /\ a.seg = b.seg
     /\ \A segment \in DOMAIN b.data : \A i \in DOMAIN b.data[segment].x :
           b.data[segment].x[i] >= 0)
    => /\ IsVec(res)
       /\ \A segment \in SegmentNames(a.seg) : BalancedTo(segment)

\* C18 as stated: balance_at_segments with an other of another segmentation
\* raises SegmentationError and returns no vector.
C18_MismatchRaisesSegmentationError ==
    (Called("balance_at_segments") /\ a.seg # b.seg) => res = Raise("SegmentationError")

\* C18 amended: balance_at_segments with an other of another segmentation
\* raises ValueError, in both modes, and returns no vector.
C18_MismatchRaisesValueError ==
    (Called("balance_at_segments") /\ a.seg # b.seg) => res = Raise("ValueError")

C18_Witness ==
    /\ Called("balance_at_segments")
    /\ a.seg = "ab"
    /\ b.seg = "tp"
    /\ res = Raise("ValueError")

(***************************************************************************)
(* Properties of the time formats (specification SpecTime).                *)
(***************************************************************************)
ConversionFactor(from, to, tp) == GetConversionFactors(from, to).data[tp]

\* C19: for the three time formats and every time period 1..6: each of the
\* six ordered pairs of distinct formats has a conversion factor; the factor
\* of week to hour is that of week to day times that of day to hour, the
\* factor of hour to week is that of hour to day times that of day to week;
\* and the factors of a pair in its two directions multiply to 1.
C19_FactorsComposeAndInvert ==
    Called("convert_time_format") =>
        /\ \A from \in TimeFormats : \A to \in TimeFormats \ {from} :
              /\ GetConversionFactors(from, to).err = ""
              /\ DOMAIN GetConversionFactors(from, to).data = TimePeriods
              /\ \A tp \in TimePeriods :
                    /\ IsFinite(ConversionFactor(from, to, tp))
                    /\ FMul(ConversionFactor(from, to, tp), ConversionFactor(to, from, tp))
                          = Float(1)
        /\ \A tp \in TimePeriods :
              /\ ConversionFactor("AVG_WEEK", "AVG_HOUR", tp)
                    = FMul(ConversionFactor("AVG_WEEK", "AVG_DAY", tp),
                           ConversionFactor("AVG_DAY", "AVG_HOUR", tp))
              /\ ConversionFactor("AVG_HOUR", "AVG_WEEK", tp)
                    = FMul(ConversionFactor("AVG_HOUR", "AVG_DAY", tp),
                           ConversionFactor("AVG_DAY", "AVG_WEEK", tp))

\* A weekly vector converted to hours in one call: 1 in time period 1 is 1/15
C19_Witness ==
    /\ Called("convert_time_format")
    /\ IsVec(res)
    /\ a.tf = "AVG_WEEK"
    /\ args.path = <<TfEnum("AVG_HOUR")>>
    /\ a.data["tp1"].x[1] = Float(1)
    /\ res.data["tp1"].x[1] = Frac(1, 15)
    /\ res.data["tp1"].x[1] = FMul(a.data["tp1"].x[1],
                                    ConversionFactor("AVG_WEEK", "AVG_HOUR", 1))

\* C20: for every vector with a time format and time period segments, after
\* any sequence of convert_time_format calls among the three time formats the
\* vector is what one conversion of the original vector to the last time
\* format gives: the values depend on the original values and the last time
\* format only, as v.convert(DAY).convert(WEEK).convert(DAY) is v.convert(DAY).
C20_ConversionIsPathIndependent ==
    (Called("convert_time_format") /\ HasTimePeriodSegments(a.seg)) =>
        /\ IsVec(res)
        /\ res = ConvertTimeFormat(a, args.path[Len(args.path)])
        /\ res.zoning = a.zoning
        /\ res.seg = a.seg
        /\ res.tf = ValidateTimeFormat(a.seg, args.path[Len(args.path)])
        /\ \A seg \in DOMAIN a.data : \A i \in DOMAIN a.data[seg].x :
              res.data[seg].x[i] =
                  IF res.tf = a.tf THEN a.data[seg].x[i]
                  ELSE FMul(a.data[seg].x[i],
                            ConversionFactor(a.tf, res.tf, IF seg = "tp1" THEN 1 ELSE 5))

\* A weekly vector converted to days, to weeks and to days again
C20_Witness ==
    /\ Called("convert_time_format")
    /\ IsVec(res)
    /\ a.tf = "AVG_WEEK"
    /\ a.zoning = "zA"
    /\ args.path = <<TfEnum("AVG_DAY"), TfEnum("AVG_WEEK"), TfStr(" Avg_Day ")>>
    /\ a.data["tp1"].x = <<Float(1), Float(1)>>
    /\ res.data["tp1"].x = <<Frac(1, 5), Frac(1, 5)>>
    /\ res.tf = "AVG_DAY"

\* The step is a call of convert_time_format, on the vector b, that asks for
\* the time format b has
SameBasisCall ==
    /\ pc' = "done"
    /\ call'.op = "convert_time_format"
    /\ Len(args'.path) = Len(args.path) + 1
    /\ b.tf # NoTf
    /\ ValidateTimeFormat(b.seg, args'.path[Len(args'.path)]) = b.tf

\* C21: a call of convert_time_format that asks for the time format the
\* vector has does not raise and returns a vector equal to the vector: same
\* zoning, segmentation, time format and values of every segment.
C21_SameBasisReturnsEqualCopy ==
    [][SameBasisCall => (IsVec(res') /\ res' = b)]_vars

\* C21 as the code has it: the copy is returned when the segmentation has
\* time period segments; without them the call raises ValueError, the check
\* of the segmentation coming before the comparison of the time formats.
C21_SameBasisWithTimePeriodsReturnsEqualCopy ==
    [][SameBasisCall =>
          IF HasTimePeriodSegments(b.seg)
          THEN /\ IsVec(res')
               /\ res' = b
               /\ res'.zoning = b.zoning /\ res'.seg = b.seg /\ res'.tf = b.tf
               /\ \A seg \in SegmentNames(b.seg) : res'.data[seg] = b.data[seg]
          ELSE res' = Raise("ValueError")]_vars

\* A daily zoned vector asked for " Avg_Day ": the result is the vector
C21_Witness ==
    /\ Called("convert_time_format")
    /\ Len(args.path) = 1
    /\ args.path[1] = TfStr(" Avg_Day ")
    /\ a.tf = "AVG_DAY"
    /\ a.zoning = "zA"
    /\ a.data["tp1"].x = <<Float(1), Float(0)>>
    /\ IsVec(res)
    /\ res = a

\* A weekly vector without time period segments asked for the weekly format
C21_WitnessWithoutTimePeriods ==
    /\ Called("convert_time_format")
    /\ Len(args.path) = 1
    /\ args.path[1] = TfEnum("AVG_WEEK")
    /\ a.tf = "AVG_WEEK"
    /\ a.seg = "ab"
    /\ res = Raise("ValueError")

(***************************************************************************)
(* Preconditions of convert_time_format (specification SpecTimeOnce).      *)
(***************************************************************************)
\* The time format asked for, as _validate_time_format returns it
AskedTf == ValidateTimeFormat(a.seg, args.path[1])

\* Some time period of the segmentation has no conversion factor
MissingTps == (DOMAIN TimePeriodGroups(a.seg)) \ TimePeriods

\* C22: convert_time_format returns no vector when a precondition fails: it
\* raises when the vector has no time format, raises SegmentationError when
\* the segmentation has no time period segments, and raises SegmentationError
\* when a time period of the segmentation has no conversion factor for the
\* conversion (to a valid time format other than the current one).
C22_PreconditionsRaise ==
    Called("convert_time_format") =>
        /\ a.tf = NoTf => IsErr(res)
        /\ (a.tf # NoTf /\ AskedTf \in TimeFormats /\ ~HasTimePeriodSegments(a.seg))
              => res = Raise("SegmentationError")
        /\ (a.tf # NoTf /\ AskedTf \in TimeFormats \ {a.tf}
              /\ HasTimePeriodSegments(a.seg) /\ MissingTps # {})
              => res = Raise("SegmentationError")

\* C22 as the code has it: ValueError without a time format, ValueError
\* without time period segments, SegmentationError for a missing factor
C22_PreconditionsRaiseValueError ==
    Called("convert_time_format") =>
        /\ a.tf = NoTf => res = Raise("ValueError")
        /\ (a.tf # NoTf /\ AskedTf \in TimeFormats /\ ~HasTimePeriodSegments(a.seg))
              => res = Raise("ValueError")
        /\ (a.tf # NoTf /\ AskedTf \in TimeFormats \ {a.tf}
              /\ HasTimePeriodSegments(a.seg) /\ MissingTps # {})
              => res = Raise("SegmentationError")
        /\ IsVec(res) => (a.tf # NoTf /\ HasTimePeriodSegments(a.seg)
                            /\ (MissingTps = {} \/ AskedTf = a.tf))

\* A daily vector with the time period 7 asked for the weekly format
C22_WitnessMissingFactor ==
    /\ Called("convert_time_format")
    /\ a.seg = "tp7"
    /\ a.tf = "AVG_DAY"
    /\ args.path = <<TfEnum("AVG_WEEK")>>
    /\ res = Raise("SegmentationError")

\* A weekly vector without time period segments asked for the daily format
C22_WitnessNoTimePeriods ==
    /\ Called("convert_time_format")
    /\ a.seg = "ab"
    /\ a.tf = "AVG_WEEK"
    /\ args.path = <<TfEnum("AVG_DAY")>>
    /\ res = Raise("ValueError")

(***************************************************************************)
(* Properties of the objects (specification SpecObjects).                  *)
(***************************************************************************)
\* C23: in every step, what every existing instance is (zoning, segmentation,
\* time format, the dictionary it holds and the values in that dictionary)
\* is left as it was; a call that returns adds one instance and changes
\* nothing else; an assignment of the zoning or of the segmentation raises
\* DVectorError and adds nothing.
C23_OperandsUnchanged ==
    [][/\ \A i \in DOMAIN a :
             /\ i \in DOMAIN a'
             /\ a'[i] = a[i]
             /\ b'[a[i].data] = b[a[i].data]
       /\ IsVec(res') => (Len(a') = Len(a) + 1 /\ a'[Len(a')].data \in DOMAIN b')
       /\ call'.op \in {"zoning_system.setter", "segmentation.setter"}
             => (res' = Raise("DVectorError") /\ a' = a /\ b' = b)]_vars

\* The first vector has been copied and the copy has been balanced to the
\* first vector: the copy holds the dictionary of the first vector, and the
\* balanced vector a dictionary of its own with other values
C23_Witness ==
    /\ pc = "done"
    /\ Len(a) = 5
    /\ a[4].data = a[1].data
    /\ a[5].data = 4
    /\ call.op = "balance_at_segments"
    /\ args.self = 4
    /\ args.other = 1
    /\ b[1]["tp1"] = VArr(<<0, 1>>)
    /\ b[4]["tp1"].x = <<ZeroInfill, Float(1)>>

\* The zoning of the first vector has been assigned to
C23_WitnessSetter ==
    /\ pc = "done"
    /\ call.op = "zoning_system.setter"
    /\ args.self = 1
    /\ res = Raise("DVectorError")
    /\ Len(a) = 3

(***************************************************************************)
(* Properties of the chunks of a table (specification SpecCtor).           *)
(***************************************************************************)
\* The dictionaries that the workers have returned for two chunks
Converted(i, j) ==
    /\ args.src = "df"
    /\ i # j
    /\ outs[i].err = ""
    /\ outs[j].err = ""

\* C24: in the construction from a table, for every table, chunk size and
\* process count, the dictionaries made from two chunks of the sorted table
\* have no segment key in common.
C24_ChunkKeysDisjoint ==
    \A i \in DOMAIN outs : \A j \in DOMAIN outs :
        Converted(i, j) => (DOMAIN outs[i].data) \cap (DOMAIN outs[j].data) = {}

\* What holds: the dictionaries of the chunks of a table without a zone
\* column in which no segment comes twice have no key in common
C24_DisjointWithoutZonesAndRepeats ==
    (args.src = "df" /\ args.zoning = NoZoning /\ ~HasDuplicateRows) =>
        \A i \in DOMAIN outs : \A j \in DOMAIN outs :
            Converted(i, j) => (DOMAIN outs[i].data) \cap (DOMAIN outs[j].data) = {}

\* The rows of the two zones of the segment A fall into two chunks, and the
\* dictionaries of both chunks hold the key A
C24_WitnessSharedKey ==
    /\ Done
    /\ args.src = "df"
    /\ args.zoning = "zA"
    /\ IsVec(res)
    /\ Len(outs) = 2
    /\ "A" \in (DOMAIN outs[1].data) \cap (DOMAIN outs[2].data)

(***************************************************************************)
(* Properties of the chunked operators (specification SpecChunked).        *)
(***************************************************************************)
\* The workers of a chunked operator have run
Chunked == Done /\ call.op \in {"multiply_and_aggregate", "translate_zoning"} /\ outs # <<>>

\* The keys of the result of the call
OutputKeys ==
    IF call.op = "multiply_and_aggregate" THEN SegmentNames(call.out_seg) ELSE DOMAIN a.data

\* The result of the call for the outputs of the workers in some order
Merged(data_chunks) ==
    IF call.op = "multiply_and_aggregate"
    THEN MulAggResult(a, b, call.out_seg, data_chunks)
    ELSE TranslateResult(a, call.out_seg, data_chunks)

\* The result of the call for the process count process_count
ResultFor(process_count) ==
    IF call.op = "multiply_and_aggregate"
    THEN LET m == SegMultiply(a.seg, b.seg)
         IN  MulAggResult(a, b, call.out_seg,
                          MulAggOuts(MulAggKwargs(a, b, m.map,
                                                  SegAggregate(m.seg, call.out_seg).map,
                                                  ProcessCountSetter(process_count))))
    ELSE TranslateResult(a, call.out_seg,
                         TranslateOuts(TranslateKwargs(a, args.first,
                                                       ProcessCountSetter(process_count))))

\* C25: in multiply_and_aggregate and translate_zoning every key of the
\* result is in the output of exactly one chunk, and the result is the same
\* for every order in which the outputs of the chunks are merged and for
\* every process count, the serial 0 included.
C25_MergeIsOrderIndependent ==
    Chunked =>
        /\ (\A c \in DOMAIN outs : outs[c].err = "") =>
              \A key \in OutputKeys :
                  Cardinality({c \in DOMAIN outs : key \in DOMAIN outs[c].data}) = 1
        /\ \A order \in Permutations(DOMAIN outs) : Merged(Returned(outs, order)) = res
        /\ \A process_count \in ProcessCounts : ResultFor(process_count) = res

\* Two chunks of one key each in multiply_and_aggregate
C25_Witness ==
    /\ Chunked
    /\ call.op = "multiply_and_aggregate"
    /\ call.out_seg = "tp"
    /\ args.pcount = 1
    /\ Len(outs) = 2
    /\ DOMAIN outs[1].data = {"tp1"}
    /\ DOMAIN outs[2].data = {"tp5"}
    /\ IsVec(res)
    /\ res.data["tp1"].x = <<1, 0>>
    /\ res.data["tp5"].x = <<0, 1>>

\* Two chunks in translate_zoning, of 700 keys and of one key
C25_WitnessTranslate ==
    /\ Chunked
    /\ call.op = "translate_zoning"
    /\ Len(outs) = 2
    /\ Cardinality(DOMAIN outs[1].data) = TranslateZoningMinChunkSize
    /\ DOMAIN outs[2].data = {BigSegments}
    /\ IsVec(res)

\* The segments of self (side 1) or of other (side 2) that the mapping of
\* the multiplication gives for the intermediate segments of the output keys
Referenced(keys, side) ==
    LET m == SegMultiply(a.seg, b.seg)
        agg == SegAggregate(m.seg, call.out_seg)
    IN  {m.map[segment_name][side] :
            segment_name \in UNION {Range(agg.map[out_seg_name]) : out_seg_name \in keys}}

\* C26: in multiply_and_aggregate the data given to the worker of a chunk
\* holds exactly the segments of self and of other that the multiplication
\* mapping gives for the intermediate segments of the chunk's output keys,
\* with the values the vectors hold: every segment that the worker reads is
\* there and no other segment is.
C26_WorkerDataIsWhatIsReferenced ==
    (Chunked /\ call.op = "multiply_and_aggregate") =>
        \A c \in DOMAIN chunks :
            LET keys == Range(chunks[c].aggregation_keys_chunk)
            IN  /\ DOMAIN chunks[c].self_data = Referenced(keys, 1)
                /\ DOMAIN chunks[c].other_data = Referenced(keys, 2)
                /\ \A k \in DOMAIN chunks[c].self_data : chunks[c].self_data[k] = a.data[k]
                /\ \A k \in DOMAIN chunks[c].other_data : chunks[c].other_data[k] = b.data[k]
                /\ \A out_seg_name \in keys :
                      \A segment_name \in Range(chunks[c].aggregation_dict[out_seg_name]) :
                          /\ segment_name \in DOMAIN chunks[c].multiply_dict
                          /\ chunks[c].multiply_dict[segment_name][1]
                                \in DOMAIN chunks[c].self_data
                          /\ chunks[c].multiply_dict[segment_name][2]
                                \in DOMAIN chunks[c].other_data

\* ab times tp aggregated to ab: the worker of the key A is given the segment
\* A of self alone, and both segments of other
C26_Witness ==
    /\ Chunked
    /\ call.op = "multiply_and_aggregate"
    /\ a.seg = "ab"
    /\ b.seg = "tp"
    /\ call.out_seg = "ab"
    /\ Len(chunks) = 2
    /\ chunks[1].aggregation_keys_chunk = <<"A">>
    /\ DOMAIN chunks[1].self_data = {"A"}
    /\ DOMAIN chunks[1].other_data = {"tp1", "tp5"}
    /\ DOMAIN chunks[2].self_data = {"B"}
    /\ IsVec(res)

(***************************************************************************)
(* The zoning of multiply_and_aggregate (specification SpecMulAgg).        *)
(***************************************************************************)
\* The oracle has the mappings of the call
HasMappings ==
    /\ SegMultiply(a.seg, b.seg).ok
    /\ SegAggregate(SegMultiply(a.seg, b.seg).seg, call.out_seg).ok

\* C27: multiply_and_aggregate treats the zoning as (a * b).aggregate(out)
\* does: the zoning of the result is that of a when the zonings are the same
\* or b has none, that of b when a has none, none when both have none, and
\* the call raises ZoningError when both have a zoning and the two differ.
C27_MulAggZoningIsMulZoning ==
    (Called("multiply_and_aggregate") /\ HasMappings) =>
        /\ MulZoning(a, b) = "ZoningError" => res = Raise("ZoningError")
        /\ IsVec(res) => res.zoning = MulZoning(a, b)

\* What holds: the zoning of the result is that of a, whatever that of b is
C27_MulAggKeepsZoningOfSelf ==
    (Called("multiply_and_aggregate") /\ IsVec(res)) => res.zoning = a.zoning

\* Vectors of the zonings zA and zB are multiplied and aggregated
C27_WitnessDifferentZonings ==
    /\ Called("multiply_and_aggregate")
    /\ a.zoning = "zA"
    /\ b.zoning = "zB"
    /\ IsVec(res)
    /\ res.zoning = "zA"
    /\ IsErr(MulThenAggregate)

\* A vector without zoning times a zoned one: the result has no zoning
C27_WitnessZonelessSelf ==
    /\ Called("multiply_and_aggregate")
    /\ a.zoning = NoZoning
    /\ b.zoning = "zA"
    /\ IsVec(res)
    /\ res.zoning = NoZoning
    /\ IsVec(MulThenAggregate)
    /\ MulThenAggregate.zoning = "zA"

(***************************************************************************)
(* Properties of the chunk sizes (specification SpecChunkSize).            *)
(***************************************************************************)
\* Every item of work is in one chunk, once, and the chunks are in order
Covering ==
    /\ UNION {Range(chunks[c]) : c \in DOMAIN chunks} = 1..args.n
    /\ \A c \in DOMAIN chunks : \A k \in 1..(Len(chunks[c]) - 1) :
          chunks[c][k + 1] = chunks[c][k] + 1
    /\ \A c \in 1..(Len(chunks) - 1) : chunks[c + 1][1] = chunks[c][Len(chunks[c])] + 1

\* The chunk size is positive, the chunks hold every item once, and the
\* chunk size of the tabular construction with p > 0 processes is
\* ceil(n / p) when n < df_chunk_size * p and df_chunk_size otherwise
GoodChunks ==
    /\ outs.chunk_size > 0
    /\ Covering
    /\ \A c \in DOMAIN chunks : Len(chunks[c]) \in 1..outs.chunk_size
    /\ (call.op = "dataframe_to_dvec" /\ ProcessCountSetter(args.pcount) > 0) =>
          outs.chunk_size =
              IF args.n < args.chunk * ProcessCountSetter(args.pcount)
              THEN CeilDiv(args.n, ProcessCountSetter(args.pcount))
              ELSE args.chunk

\* C28: for every process count (positive, zero, negative for all cores
\* minus N) and every amount of work n >= 0, each of the four chunked
\* operations computes a chunk size that is positive and chunks that hold
\* every item once; the tabular construction with p > 0 processes has the
\* chunk size ceil(n / p) when n < df_chunk_size * p, else df_chunk_size.
C28_ChunkSizesPositiveAndCovering ==
    Done => GoodChunks

\* What holds: the same for work of one item or more and a process count
\* that the setter leaves at zero or above
C28_HoldsForWorkAndProcesses ==
    (Done /\ args.n >= 1 /\ ProcessCountSetter(args.pcount) >= 0) => GoodChunks

\* What holds: translate_zoning and to_df have a positive chunk size for
\* every process count and every amount of work
C28_MinimumChunkSizes ==
    (Done /\ call.op \in {"translate_zoning", "to_df"}) => GoodChunks

\* A table without rows and one process: the chunk size is 0
C28_WitnessEmptyTable ==
    /\ Done
    /\ call.op = "dataframe_to_dvec"
    /\ args.n = 0
    /\ args.pcount = 1
    /\ outs = [chunk_size |-> 0, err |-> "ZeroDivisionError"]

\* Two keys and a process count of one below minus the number of cores
C28_WitnessNegativeProcesses ==
    /\ Done
    /\ call.op = "multiply_and_aggregate"
    /\ args.n = 2
    /\ ProcessCountSetter(args.pcount) = -1
    /\ outs.chunk_size = 0

\* Three rows for two processes: two chunks, of two rows and of one row
C28_WitnessEvenSplit ==
    /\ Done
    /\ call.op = "dataframe_to_dvec"
    /\ args = [n |-> 3, pcount |-> 2, chunk |-> 2]
    /\ outs.chunk_size = 2
    /\ chunks = <<(<<1, 2>>), (<<3>>)>>

\* ---------------------------------------------------------------------------
\* C29
\* ---------------------------------------------------------------------------

\* The segments of the returned vector that hold None
Unfilled(r) == {n \in DOMAIN r.data : r.data[n] = VNone}

Filled(r) == DOMAIN r.data = SegmentNames(r.seg) /\ Unfilled(r) = {}

\* C29: every vector that split_segmentation_like, balance_at_segments (in
\* either mode) and convert_time_format return holds a value for every segment
\* of its segmentation, whatever mapping the segmentation answered with.
C29_EverySegmentHoldsAValue == Done /\ IsVec(res) => Filled(res)

\* C29 as the code has it: the returned vector holds a value for every segment
\* that the mapping of the segmentation assigns, and None for every other one;
\* it is filled when the mapping assigns every segment (and in the default
\* mode of balance_at_segments, which reads no mapping), and when
\* convert_time_format returns the copy of self.
C29_AssignedSegmentsHoldAValue ==
    Done /\ IsVec(res) =>
        /\ DOMAIN res.data = SegmentNames(res.seg)
        /\ \/ Unfilled(res) = SegmentNames(res.seg) \ args.covered
           \/ call.op = "convert_time_format" /\ res.tf = a.tf /\ Unfilled(res) = {}
        /\ SegmentNames(res.seg) \subseteq args.covered => Filled(res)

\* split_segmentation_like returned a vector in which a segment holds None
C29_WitnessSplitLeavesNone ==
    /\ Done /\ IsVec(res) /\ call.op = "split_segmentation_like"
    /\ args.covered = {"tp1"}
    /\ res.data["tp5"] = VNone /\ res.data["tp1"] # VNone

\* balance_at_segments in the weekday and weekend mode did
C29_WitnessBalanceLeavesNone ==
    /\ Done /\ IsVec(res) /\ call.op = "balance_at_segments" /\ call.variant
    /\ Unfilled(res) = {"tp5"}

\* convert_time_format did
C29_WitnessConvertLeavesNone ==
    /\ Done /\ IsVec(res) /\ call.op = "convert_time_format" /\ res.tf = "AVG_DAY"
    /\ Unfilled(res) = {"tp1"}

\* every operator returned a filled vector for the whole mapping
C29_WitnessFilled ==
    /\ Done /\ IsVec(res) /\ call.op = "balance_at_segments" /\ call.variant
    /\ args.covered = {"tp1", "tp5"} /\ Filled(res)

\* ---------------------------------------------------------------------------
\* C30
\* ---------------------------------------------------------------------------

KeepingTimeFormat ==
    {"aggregate", "subset", "translate_zoning", "balance_at_segments", "remove_zoning"}

\* The vector that the last call was made on
SelfOfCall == a[args.self]

\* C30: the vector that aggregate, subset, translate_zoning,
\* balance_at_segments, remove_zoning or expand_segmentation returns has the
\* time format of self, for a self with a time format and for one without.
C30_TimeFormatIsThatOfSelf ==
    Done /\ IsVec(res) /\ call.op \in KeepingTimeFormat \cup {"expand_segmentation"}
        => res.tf = SelfOfCall.tf

\* C30 as the code has it: the five operators that pass time_format to the
\* constructor return the time format of self, and expand_segmentation, which
\* does not pass it, returns a vector without a time format.
C30_TimeFormatOfSelfButForExpand ==
    /\ Done /\ IsVec(res) /\ call.op \in KeepingTimeFormat => res.tf = SelfOfCall.tf
    /\ Done /\ IsVec(res) /\ call.op = "expand_segmentation" => res.tf = NoTf

\* expand_segmentation of a weekly vector returned a vector without a time
\* format
C30_WitnessExpandDropsTimeFormat ==
    /\ Done /\ IsVec(res) /\ call.op = "expand_segmentation"
    /\ SelfOfCall.tf = "AVG_WEEK" /\ SelfOfCall.seg = "c"
    /\ res.seg = "ab" /\ res.tf = NoTf

\* remove_zoning of a weekly vector returned a weekly vector
C30_WitnessKeepsTimeFormat ==
    /\ Done /\ IsVec(res) /\ call.op = "remove_zoning"
    /\ SelfOfCall.tf = "AVG_WEEK" /\ res.tf = "AVG_WEEK" /\ res.zoning = NoZoning

\* aggregate of a vector without a time format returned one without
C30_WitnessKeepsNoTimeFormat ==
    /\ Done /\ IsVec(res) /\ call.op = "aggregate"
    /\ SelfOfCall.tf = NoTf /\ SelfOfCall.seg = "ab" /\ res.tf = NoTf

====
